---- MODULE Spec2Model ----
(***************************************************************************)
(* Monitoramento_HRA: the enrichment pipeline of the request-monitoring    *)
(* dashboard.  core/etl.py loads the spreadsheet and derives lead_time and *)
(* status_macro, core/sla.py derives the SLA fields, core/risco.py the     *)
(* risk score, category and dimension; app.py chains the three stages.     *)
(*                                                                         *)
(* A pandas DataFrame is a record [cols, rows]: cols is the sequence of    *)
(* column names in column order, rows the sequence of records, each a      *)
(* function from the column names to cells.  A cell is dynamically typed,  *)
(* as in pandas: [t |-> "str", s], [t |-> "int", i], [t |-> "bool", b],    *)
(* [t |-> "ts", d, h] (a timestamp: day number and hour of the day) or     *)
(* [t |-> "nan"] (NaN / None / NaT).                                       *)
(*                                                                         *)
(* TLA+ strings are atomic, so every string whose characters the code      *)
(* inspects (lower, strip, len, substring) is spelled out by Chars.        *)
(***************************************************************************)
EXTENDS Integers, Sequences, FiniteSets, TLC

VARIABLES
    cfg,        \* config/settings.yaml as loaded at import time
    excel,      \* the source spreadsheet (CAMINHO_EXCEL): its table, or unreadable
    parquet,    \* the snapshot file (CAMINHO_PARQUET): a table, absent or unreadable
    df,         \* the DataFrame the running function holds / returns
    pc,         \* position of the program
    avisos,     \* the inputs named by logger.warning calls so far
    erro,       \* the exception caught or propagated by the last call, or "nenhum"
    possiveis,  \* achar_coluna: the candidate names passed in
    ret,        \* achar_coluna: the value returned
    hoje        \* the calendar day of pd.Timestamp("today")

vars == <<cfg, excel, parquet, df, pc, avisos, erro, possiveis, ret, hoje>>

(***************************************************************************)
(* Strings                                                                 *)
(***************************************************************************)
\* every string whose characters the program inspects
Strings ==
    {"",
     " ",
     "x",
     "Ana",
     " 123 ",
     "nan",
     "abc",
     "SEI",
     "sei",
     " Sei ",
     "Andamento SEI",
     "andamento sei",
     "Responsável",
     "Responsável Técnico",
     "Responsavel Técnico",
     "Responsavel Tecnico",
     "Situação  do Processo",
     "Situação do Processo",
     "Situação Processo",
     "SITUAÇÃO DO PROCESSO",
     "Data da solicitação",
     "Data da Solicitação",
     "DATA DA SOLICITAÇÃO",
     "Tipo da solicitação",
     "Tipo da Solicitação",
     "Tipo Solicitação",
     "Orgão",
     "TIPO DA SOLICITAÇÃO",
     "RESPONSÁVEL",
     "responsável",
     "ANDAMENTO SEI",
     "Núcleo Pertencente",
     "Núcleo",
     "Nucleo",
     "NÚCLEO",
     "lead_time",
     "status_macro",
     "tem_sei",
     "tem_andamento_sei",
     "complexidade_aprox",
     "sla_base",
     "sla_final",
     "atrasado",
     "atraso_severo",
     "margem_sla",
     "sla_categoria",
     "faixa_lead_time",
     "muito_antigo",
     "risco_score",
     "risco_categoria",
     "risco_tempo_flag",
     "risco_operacional_flag",
     "risco_governanca_flag",
     "risco_dimensao_principal",
     "cancel",
     "indefer",
     "defer",
     "finaliz",
     "conclu",
     "andamento",
     "analise",
     "análise",
     "pendente",
     "Cancelado",
     " CANCELADO ",
     "Deferido",
     "Indeferido",
     "Finalizado",
     "Concluído",
     "Em andamento",
     "Em analise",
     "Em Análise",
     "Pendente",
     "Aguardando",
     "Cancelado após deferimento",
     "Pendente de conclusão",
     "Adesão",
     " Adesão ",
     "Pregão",
     "Sei",
     "Serviço",
     "dispensa",
     "adesão",
     "adesao",
     "ata de registro",
     "renovação",
     "renovacao",
     "pregão",
     "pregao",
     "concorrência",
     "concorrencia",
     "tomada de preços"}

\* the characters of each string
CharsDe ==
  [s \in Strings |->
    CASE s = "" -> <<>>
      [] s = " " -> <<" ">>
      [] s = "x" -> <<"x">>
      [] s = "Ana" -> <<"A", "n", "a">>
      [] s = " 123 " -> <<" ", "1", "2", "3", " ">>
      [] s = "nan" -> <<"n", "a", "n">>
      [] s = "abc" -> <<"a", "b", "c">>
      [] s = "SEI" -> <<"S", "E", "I">>
      [] s = "sei" -> <<"s", "e", "i">>
      [] s = " Sei " -> <<" ", "S", "e", "i", " ">>
      [] s = "Andamento SEI" -> <<"A", "n", "d", "a", "m", "e", "n", "t", "o", " ", "S", "E", "I">>
      [] s = "andamento sei" -> <<"a", "n", "d", "a", "m", "e", "n", "t", "o", " ", "s", "e", "i">>
      [] s = "Responsável" -> <<"R", "e", "s", "p", "o", "n", "s", "á", "v", "e", "l">>
      [] s = "Responsável Técnico" -> <<"R", "e", "s", "p", "o", "n", "s", "á", "v", "e", "l", " ", "T", "é", "c", "n", "i", "c", "o">>
      [] s = "Responsavel Técnico" -> <<"R", "e", "s", "p", "o", "n", "s", "a", "v", "e", "l", " ", "T", "é", "c", "n", "i", "c", "o">>
      [] s = "Responsavel Tecnico" -> <<"R", "e", "s", "p", "o", "n", "s", "a", "v", "e", "l", " ", "T", "e", "c", "n", "i", "c", "o">>
      [] s = "Situação  do Processo" -> <<"S", "i", "t", "u", "a", "ç", "ã", "o", " ", " ", "d", "o", " ", "P", "r", "o", "c", "e", "s", "s", "o">>
      [] s = "Situação do Processo" -> <<"S", "i", "t", "u", "a", "ç", "ã", "o", " ", "d", "o", " ", "P", "r", "o", "c", "e", "s", "s", "o">>
      [] s = "Situação Processo" -> <<"S", "i", "t", "u", "a", "ç", "ã", "o", " ", "P", "r", "o", "c", "e", "s", "s", "o">>
      [] s = "SITUAÇÃO DO PROCESSO" -> <<"S", "I", "T", "U", "A", "Ç", "Ã", "O", " ", "D", "O", " ", "P", "R", "O", "C", "E", "S", "S", "O">>
      [] s = "Data da solicitação" -> <<"D", "a", "t", "a", " ", "d", "a", " ", "s", "o", "l", "i", "c", "i", "t", "a", "ç", "ã", "o">>
      [] s = "Data da Solicitação" -> <<"D", "a", "t", "a", " ", "d", "a", " ", "S", "o", "l", "i", "c", "i", "t", "a", "ç", "ã", "o">>
      [] s = "DATA DA SOLICITAÇÃO" -> <<"D", "A", "T", "A", " ", "D", "A", " ", "S", "O", "L", "I", "C", "I", "T", "A", "Ç", "Ã", "O">>
      [] s = "Tipo da solicitação" -> <<"T", "i", "p", "o", " ", "d", "a", " ", "s", "o", "l", "i", "c", "i", "t", "a", "ç", "ã", "o">>
      [] s = "Tipo da Solicitação" -> <<"T", "i", "p", "o", " ", "d", "a", " ", "S", "o", "l", "i", "c", "i", "t", "a", "ç", "ã", "o">>
      [] s = "Tipo Solicitação" -> <<"T", "i", "p", "o", " ", "S", "o", "l", "i", "c", "i", "t", "a", "ç", "ã", "o">>
      [] s = "Orgão" -> <<"O", "r", "g", "ã", "o">>
      [] s = "TIPO DA SOLICITAÇÃO" -> <<"T", "I", "P", "O", " ", "D", "A", " ", "S", "O", "L", "I", "C", "I", "T", "A", "Ç", "Ã", "O">>
      [] s = "RESPONSÁVEL" -> <<"R", "E", "S", "P", "O", "N", "S", "Á", "V", "E", "L">>
      [] s = "responsável" -> <<"r", "e", "s", "p", "o", "n", "s", "á", "v", "e", "l">>
      [] s = "ANDAMENTO SEI" -> <<"A", "N", "D", "A", "M", "E", "N", "T", "O", " ", "S", "E", "I">>
      [] s = "Núcleo Pertencente" -> <<"N", "ú", "c", "l", "e", "o", " ", "P", "e", "r", "t", "e", "n", "c", "e", "n", "t", "e">>
      [] s = "Núcleo" -> <<"N", "ú", "c", "l", "e", "o">>
      [] s = "Nucleo" -> <<"N", "u", "c", "l", "e", "o">>
      [] s = "NÚCLEO" -> <<"N", "Ú", "C", "L", "E", "O">>
      [] s = "lead_time" -> <<"l", "e", "a", "d", "_", "t", "i", "m", "e">>
      [] s = "status_macro" -> <<"s", "t", "a", "t", "u", "s", "_", "m", "a", "c", "r", "o">>
      [] s = "tem_sei" -> <<"t", "e", "m", "_", "s", "e", "i">>
      [] s = "tem_andamento_sei" -> <<"t", "e", "m", "_", "a", "n", "d", "a", "m", "e", "n", "t", "o", "_", "s", "e", "i">>
      [] s = "complexidade_aprox" -> <<"c", "o", "m", "p", "l", "e", "x", "i", "d", "a", "d", "e", "_", "a", "p", "r", "o", "x">>
      [] s = "sla_base" -> <<"s", "l", "a", "_", "b", "a", "s", "e">>
      [] s = "sla_final" -> <<"s", "l", "a", "_", "f", "i", "n", "a", "l">>
      [] s = "atrasado" -> <<"a", "t", "r", "a", "s", "a", "d", "o">>
      [] s = "atraso_severo" -> <<"a", "t", "r", "a", "s", "o", "_", "s", "e", "v", "e", "r", "o">>
      [] s = "margem_sla" -> <<"m", "a", "r", "g", "e", "m", "_", "s", "l", "a">>
      [] s = "sla_categoria" -> <<"s", "l", "a", "_", "c", "a", "t", "e", "g", "o", "r", "i", "a">>
      [] s = "faixa_lead_time" -> <<"f", "a", "i", "x", "a", "_", "l", "e", "a", "d", "_", "t", "i", "m", "e">>
      [] s = "muito_antigo" -> <<"m", "u", "i", "t", "o", "_", "a", "n", "t", "i", "g", "o">>
      [] s = "risco_score" -> <<"r", "i", "s", "c", "o", "_", "s", "c", "o", "r", "e">>
      [] s = "risco_categoria" -> <<"r", "i", "s", "c", "o", "_", "c", "a", "t", "e", "g", "o", "r", "i", "a">>
      [] s = "risco_tempo_flag" -> <<"r", "i", "s", "c", "o", "_", "t", "e", "m", "p", "o", "_", "f", "l", "a", "g">>
      [] s = "risco_operacional_flag" -> <<"r", "i", "s", "c", "o", "_", "o", "p", "e", "r", "a", "c", "i", "o", "n", "a", "l", "_", "f", "l", "a", "g">>
      [] s = "risco_governanca_flag" -> <<"r", "i", "s", "c", "o", "_", "g", "o", "v", "e", "r", "n", "a", "n", "c", "a", "_", "f", "l", "a", "g">>
      [] s = "risco_dimensao_principal" -> <<"r", "i", "s", "c", "o", "_", "d", "i", "m", "e", "n", "s", "a", "o", "_", "p", "r", "i", "n", "c", "i", "p", "a", "l">>
      [] s = "cancel" -> <<"c", "a", "n", "c", "e", "l">>
      [] s = "indefer" -> <<"i", "n", "d", "e", "f", "e", "r">>
      [] s = "defer" -> <<"d", "e", "f", "e", "r">>
      [] s = "finaliz" -> <<"f", "i", "n", "a", "l", "i", "z">>
      [] s = "conclu" -> <<"c", "o", "n", "c", "l", "u">>
      [] s = "andamento" -> <<"a", "n", "d", "a", "m", "e", "n", "t", "o">>
      [] s = "analise" -> <<"a", "n", "a", "l", "i", "s", "e">>
      [] s = "análise" -> <<"a", "n", "á", "l", "i", "s", "e">>
      [] s = "pendente" -> <<"p", "e", "n", "d", "e", "n", "t", "e">>
      [] s = "Cancelado" -> <<"C", "a", "n", "c", "e", "l", "a", "d", "o">>
      [] s = " CANCELADO " -> <<" ", "C", "A", "N", "C", "E", "L", "A", "D", "O", " ">>
      [] s = "Deferido" -> <<"D", "e", "f", "e", "r", "i", "d", "o">>
      [] s = "Indeferido" -> <<"I", "n", "d", "e", "f", "e", "r", "i", "d", "o">>
      [] s = "Finalizado" -> <<"F", "i", "n", "a", "l", "i", "z", "a", "d", "o">>
      [] s = "Concluído" -> <<"C", "o", "n", "c", "l", "u", "í", "d", "o">>
      [] s = "Em andamento" -> <<"E", "m", " ", "a", "n", "d", "a", "m", "e", "n", "t", "o">>
      [] s = "Em analise" -> <<"E", "m", " ", "a", "n", "a", "l", "i", "s", "e">>
      [] s = "Em Análise" -> <<"E", "m", " ", "A", "n", "á", "l", "i", "s", "e">>
      [] s = "Pendente" -> <<"P", "e", "n", "d", "e", "n", "t", "e">>
      [] s = "Aguardando" -> <<"A", "g", "u", "a", "r", "d", "a", "n", "d", "o">>
      [] s = "Cancelado após deferimento" -> <<"C", "a", "n", "c", "e", "l", "a", "d", "o", " ", "a", "p", "ó", "s", " ", "d", "e", "f", "e", "r", "i", "m", "e", "n", "t", "o">>
      [] s = "Pendente de conclusão" -> <<"P", "e", "n", "d", "e", "n", "t", "e", " ", "d", "e", " ", "c", "o", "n", "c", "l", "u", "s", "ã", "o">>
      [] s = "Adesão" -> <<"A", "d", "e", "s", "ã", "o">>
      [] s = " Adesão " -> <<" ", "A", "d", "e", "s", "ã", "o", " ">>
      [] s = "Pregão" -> <<"P", "r", "e", "g", "ã", "o">>
      [] s = "Sei" -> <<"S", "e", "i">>
      [] s = "Serviço" -> <<"S", "e", "r", "v", "i", "ç", "o">>
      [] s = "dispensa" -> <<"d", "i", "s", "p", "e", "n", "s", "a">>
      [] s = "adesão" -> <<"a", "d", "e", "s", "ã", "o">>
      [] s = "adesao" -> <<"a", "d", "e", "s", "a", "o">>
      [] s = "ata de registro" -> <<"a", "t", "a", " ", "d", "e", " ", "r", "e", "g", "i", "s", "t", "r", "o">>
      [] s = "renovação" -> <<"r", "e", "n", "o", "v", "a", "ç", "ã", "o">>
      [] s = "renovacao" -> <<"r", "e", "n", "o", "v", "a", "c", "a", "o">>
      [] s = "pregão" -> <<"p", "r", "e", "g", "ã", "o">>
      [] s = "pregao" -> <<"p", "r", "e", "g", "a", "o">>
      [] s = "concorrência" -> <<"c", "o", "n", "c", "o", "r", "r", "ê", "n", "c", "i", "a">>
      [] s = "concorrencia" -> <<"c", "o", "n", "c", "o", "r", "r", "e", "n", "c", "i", "a">>
      [] s = "tomada de preços" -> <<"t", "o", "m", "a", "d", "a", " ", "d", "e", " ", "p", "r", "e", "ç", "o", "s">>]

\* the characters of a string
Chars(s) == CharsDe[s]

\* str.lower of one character
Lower(c) ==
    CASE c = "A" -> "a"
      [] c = "C" -> "c"
      [] c = "D" -> "d"
      [] c = "E" -> "e"
      [] c = "F" -> "f"
      [] c = "I" -> "i"
      [] c = "L" -> "l"
      [] c = "M" -> "m"
      [] c = "N" -> "n"
      [] c = "O" -> "o"
      [] c = "P" -> "p"
      [] c = "R" -> "r"
      [] c = "S" -> "s"
      [] c = "T" -> "t"
      [] c = "U" -> "u"
      [] c = "V" -> "v"
      [] c = "Á" -> "á"
      [] c = "Ã" -> "ã"
      [] c = "Ç" -> "ç"
      [] c = "Ú" -> "ú"
      [] OTHER -> c

\* ord of one character
Ord(c) ==
    CASE c = " " -> 32
      [] c = "1" -> 49
      [] c = "2" -> 50
      [] c = "3" -> 51
      [] c = "A" -> 65
      [] c = "C" -> 67
      [] c = "D" -> 68
      [] c = "E" -> 69
      [] c = "F" -> 70
      [] c = "I" -> 73
      [] c = "L" -> 76
      [] c = "M" -> 77
      [] c = "N" -> 78
      [] c = "O" -> 79
      [] c = "P" -> 80
      [] c = "R" -> 82
      [] c = "S" -> 83
      [] c = "T" -> 84
      [] c = "U" -> 85
      [] c = "V" -> 86
      [] c = "_" -> 95
      [] c = "a" -> 97
      [] c = "b" -> 98
      [] c = "c" -> 99
      [] c = "d" -> 100
      [] c = "e" -> 101
      [] c = "f" -> 102
      [] c = "g" -> 103
      [] c = "i" -> 105
      [] c = "l" -> 108
      [] c = "m" -> 109
      [] c = "n" -> 110
      [] c = "o" -> 111
      [] c = "p" -> 112
      [] c = "r" -> 114
      [] c = "s" -> 115
      [] c = "t" -> 116
      [] c = "u" -> 117
      [] c = "v" -> 118
      [] c = "x" -> 120
      [] c = "z" -> 122
      [] c = "Á" -> 193
      [] c = "Ã" -> 195
      [] c = "Ç" -> 199
      [] c = "Ú" -> 218
      [] c = "á" -> 225
      [] c = "ã" -> 227
      [] c = "ç" -> 231
      [] c = "é" -> 233
      [] c = "ê" -> 234
      [] c = "í" -> 237
      [] c = "ó" -> 243
      [] c = "ú" -> 250

\* str.isspace for the characters in use
IsSpace(c) == c \in {" "}

\* str.lower
StrLower(cs) == [i \in DOMAIN cs |-> Lower(cs[i])]

RECURSIVE LStrip(_)
LStrip(cs) == IF cs # <<>> /\ IsSpace(Head(cs)) THEN LStrip(Tail(cs)) ELSE cs

RECURSIVE RStrip(_)
RStrip(cs) ==
    IF cs # <<>> /\ IsSpace(cs[Len(cs)]) THEN RStrip(SubSeq(cs, 1, Len(cs) - 1)) ELSE cs

\* str.strip
StrStrip(cs) == RStrip(LStrip(cs))

\* the Python test `pat in txt` on strings
Contains(txt, pat) ==
    \E k \in 0..(Len(txt) - Len(pat)) : SubSeq(txt, k + 1, k + Len(pat)) = pat

Digit(n) == CASE n = 0 -> "0" [] n = 1 -> "1" [] n = 2 -> "2" [] n = 3 -> "3" [] n = 4 -> "4"
              [] n = 5 -> "5" [] n = 6 -> "6" [] n = 7 -> "7" [] n = 8 -> "8" [] n = 9 -> "9"

RECURSIVE Digits(_)
Digits(n) == IF n < 10 THEN <<Digit(n)>> ELSE Digits(n \div 10) \o <<Digit(n % 10)>>

(***************************************************************************)
(* Cells and tables                                                        *)
(***************************************************************************)
NaN == [t |-> "nan"]
S(s) == [t |-> "str", s |-> s]
I(i) == [t |-> "int", i |-> i]
B(b) == [t |-> "bool", b |-> b]
Ts(d, h) == [t |-> "ts", d |-> d, h |-> h]

\* Series.astype(str) / str(x) of one cell, as characters
AsStr(c) ==
    CASE c.t = "str" -> Chars(c.s)
      [] c.t = "nan" -> <<"n", "a", "n">>
      [] c.t = "int" -> IF c.i < 0 THEN <<"-">> \o Digits(-c.i) ELSE Digits(c.i)
      [] c.t = "bool" -> IF c.b THEN <<"T", "r", "u", "e">> ELSE <<"F", "a", "l", "s", "e">>
      [] c.t = "ts" -> Digits(c.d) \o <<" ">> \o Digits(c.h)

\* Series.isna of one cell
IsNa(c) == c.t = "nan"

\* Series.fillna(False).astype(bool) of one cell
AsBool(c) ==
    CASE c.t = "bool" -> c.b
      [] c.t = "nan" -> FALSE
      [] c.t = "int" -> c.i # 0
      [] c.t = "str" -> Chars(c.s) # <<>>
      [] c.t = "ts" -> TRUE

SeqToSet(q) == {q[i] : i \in DOMAIN q}

\* `name in df.columns`
TemColuna(d, c) == \E k \in DOMAIN d.cols : d.cols[k] = c

\* the records of d from record i on, each with its field c set to vals[i]
RECURSIVE LinhasCom(_, _, _, _)
LinhasCom(d, c, vals, i) ==
    IF i > Len(d.rows) THEN <<>>
    ELSE <<(c :> vals[i]) @@ d.rows[i]>> \o LinhasCom(d, c, vals, i + 1)

\* df[c] = <one value per record>: a new column goes last, an existing one is replaced
SetCol(d, c, vals) ==
    [cols |-> IF TemColuna(d, c) THEN d.cols ELSE Append(d.cols, c),
     rows |-> LinhasCom(d, c, vals, 1)]

\* df[c] = <scalar>
SetColConst(d, c, v) == SetCol(d, c, [i \in DOMAIN d.rows |-> v])

\* next((c for c in names if c in df.columns), None)
RECURSIVE PrimeiraPresente(_, _)
PrimeiraPresente(d, names) ==
    IF names = <<>> THEN "None"
    ELSE IF TemColuna(d, Head(names)) THEN Head(names)
    ELSE PrimeiraPresente(d, Tail(names))

(***************************************************************************)
(* core/etl.py: achar_coluna                                               *)
(***************************************************************************)
\* candidatos_normalizados without lower()
candidatos_SemLower(cands) == {StrStrip(Chars(cands[i])) : i \in DOMAIN cands}

\* candidatos_normalizados = [p.lower().strip() for p in possiveis]
candidatos_normalizados(cands) == {StrStrip(StrLower(Chars(cands[i]))) : i \in DOMAIN cands}

\* the loop over df.columns, from column k on
RECURSIVE AcharDesde(_, _, _)
AcharDesde(cols, normalizados, k) ==
    IF k > Len(cols) THEN "None"
    ELSE IF StrStrip(StrLower(Chars(cols[k]))) \in normalizados THEN cols[k]
    ELSE AcharDesde(cols, normalizados, k + 1)

achar_coluna(d, cands) ==
    LET normalizados == candidatos_normalizados(cands)
    IN  AcharDesde(d.cols, normalizados, 1)

(***************************************************************************)
(* core/risco.py: calcular_risco                                           *)
(***************************************************************************)
\* PESOS.get(chave, 0)
PesosGet(PESOS, chave) == IF chave \in DOMAIN PESOS THEN PESOS[chave] ELSE 0

\* cond_atraso with the default of a missing column turned to True
cond_atraso_DefaultTrue(d, i) == TemColuna(d, "atrasado") => AsBool(d.rows[i]["atrasado"])

\* cond_atraso of record i: df["atrasado"].fillna(False).astype(bool), all False without the column
cond_atraso(d, i) == TemColuna(d, "atrasado") /\ AsBool(d.rows[i]["atrasado"])

\* cond_cancelado of record i: df["status_macro"].eq("Cancelado")
cond_cancelado(d, i) ==
    /\ TemColuna(d, "status_macro")
    /\ d.rows[i]["status_macro"].t = "str"
    /\ d.rows[i]["status_macro"].s = "Cancelado"

\* Series.gt(int) raises TypeError on a text or timestamp cell of an object column
GtLevanta(c) == c.t \in {"str", "ts"}

\* one cell of Series.gt(limite): NaN compares False, a bool as 0 or 1
Gt(c, limite) ==
    CASE c.t = "int" -> c.i > limite
      [] c.t = "bool" -> (IF c.b THEN 1 ELSE 0) > limite
      [] OTHER -> FALSE

\* cond_lead_extremo of record i: df["lead_time"].gt(LIMITE_LEAD)
cond_lead_extremo(d, i, LIMITE_LEAD) ==
    TemColuna(d, "lead_time") /\ Gt(d.rows[i]["lead_time"], LIMITE_LEAD)

\* df["lead_time"].gt(LIMITE_LEAD) raises when any cell of the column does
LeadLevanta(d) ==
    TemColuna(d, "lead_time") /\ \E i \in DOMAIN d.rows : GtLevanta(d.rows[i]["lead_time"])

possiveis_colunas_sei == <<"Andamento SEI", "SEI">>

col_sei(d) == PrimeiraPresente(d, possiveis_colunas_sei)

\* cond_falha_sei of record i: df[col_sei].astype(str).str.strip().str.len().eq(0)
cond_falha_sei(d, i) ==
    col_sei(d) # "None" /\ Len(StrStrip(AsStr(d.rows[i][col_sei(d)]))) = 0

possiveis_resp ==
    <<"Responsável", "Responsável Técnico", "Responsavel Técnico", "Responsavel Tecnico">>

col_resp(d) == PrimeiraPresente(d, possiveis_resp)

\* cond_sem_resp without the isna() test: a missing owner reads as the text "nan"
cond_sem_resp_SemIsna(d, i) ==
    col_resp(d) # "None" /\ StrStrip(AsStr(d.rows[i][col_resp(d)])) = <<>>

\* cond_sem_resp of record i: df[col_resp].isna() | (df[col_resp].astype(str).str.strip() == "")
cond_sem_resp(d, i) ==
    /\ col_resp(d) # "None"
    /\ \/ IsNa(d.rows[i][col_resp(d)])
       \/ StrStrip(AsStr(d.rows[i][col_resp(d)])) = <<>>

Peso(b, w) == IF b THEN w ELSE 0

\* ScoreAte with the cancellation scored at the weight of "atraso"
ScoreAte_PesoTrocado(d, i, c, n) ==
      (IF n >= 1 THEN Peso(cond_atraso(d, i), PesosGet(c.PESOS, "atraso")) ELSE 0)
    + (IF n >= 2 THEN Peso(cond_cancelado(d, i), PesosGet(c.PESOS, "atraso")) ELSE 0)
    + (IF n >= 3 THEN Peso(cond_lead_extremo(d, i, c.LIMITE_LEAD),
                           PesosGet(c.PESOS, "lead_time_extremo")) ELSE 0)
    + (IF n >= 4 THEN Peso(cond_falha_sei(d, i), PesosGet(c.PESOS, "falha_sei")) ELSE 0)
    + (IF n >= 5 THEN Peso(cond_sem_resp(d, i), PesosGet(c.PESOS, "sem_responsavel")) ELSE 0)

\* ScoreAte adding to the risco_score the table came with
ScoreAte_Acumula(d, i, c, n) ==
      (IF TemColuna(d, "risco_score") THEN d.rows[i]["risco_score"].i ELSE 0)
    + (IF n >= 1 THEN Peso(cond_atraso(d, i), PesosGet(c.PESOS, "atraso")) ELSE 0)
    + (IF n >= 2 THEN Peso(cond_cancelado(d, i), PesosGet(c.PESOS, "cancelado")) ELSE 0)
    + (IF n >= 3 THEN Peso(cond_lead_extremo(d, i, c.LIMITE_LEAD),
                           PesosGet(c.PESOS, "lead_time_extremo")) ELSE 0)
    + (IF n >= 4 THEN Peso(cond_falha_sei(d, i), PesosGet(c.PESOS, "falha_sei")) ELSE 0)
    + (IF n >= 5 THEN Peso(cond_sem_resp(d, i), PesosGet(c.PESOS, "sem_responsavel")) ELSE 0)

\* risco_score of record i after the first n of the five `df["risco_score"] += ...` statements
ScoreAte(d, i, c, n) ==
      (IF n >= 1 THEN Peso(cond_atraso(d, i), PesosGet(c.PESOS, "atraso")) ELSE 0)
    + (IF n >= 2 THEN Peso(cond_cancelado(d, i), PesosGet(c.PESOS, "cancelado")) ELSE 0)
    + (IF n >= 3 THEN Peso(cond_lead_extremo(d, i, c.LIMITE_LEAD),
                           PesosGet(c.PESOS, "lead_time_extremo")) ELSE 0)
    + (IF n >= 4 THEN Peso(cond_falha_sei(d, i), PesosGet(c.PESOS, "falha_sei")) ELSE 0)
    + (IF n >= 5 THEN Peso(cond_sem_resp(d, i), PesosGet(c.PESOS, "sem_responsavel")) ELSE 0)

\* pd.cut(score, bins=[-1, 20, 50, 1000], labels=["Baixo", "Moderado", "Alto"]):
\* right-closed intervals, NaN outside (-1, 1000]
risco_categoria(score) ==
    IF score > -1 /\ score <= 20 THEN S("Baixo")
    ELSE IF score > 20 /\ score <= 50 THEN S("Moderado")
    ELSE IF score > 50 /\ score <= 1000 THEN S("Alto")
    ELSE NaN

risco_tempo_flag(d, i, c) == cond_atraso(d, i) \/ cond_lead_extremo(d, i, c.LIMITE_LEAD)

risco_operacional_flag(d, i) == cond_sem_resp(d, i) \/ cond_falha_sei(d, i)

risco_governanca_flag(d, i) == cond_cancelado(d, i)

\* _dimensao_principal without the 'Misto' case: the first active group wins
dimensao_principal_SemMisto(tempo, operacional, governanca) ==
    IF tempo THEN "Tempo"
    ELSE IF operacional THEN "Operacional"
    ELSE IF governanca THEN "Governança"
    ELSE "Nenhum"

\* _dimensao_principal without the governance group
dimensao_principal_SemGovernanca(tempo, operacional, governanca) ==
    LET ativos == (IF tempo THEN <<"Tempo">> ELSE <<>>)
                  \o (IF operacional THEN <<"Operacional">> ELSE <<>>)
    IN  IF Len(ativos) = 0 THEN "Nenhum"
        ELSE IF Len(ativos) = 1 THEN ativos[1]
        ELSE "Misto"

\* _dimensao_principal(row) from the three flags of the row
dimensao_principal(tempo, operacional, governanca) ==
    LET ativos == (IF tempo THEN <<"Tempo">> ELSE <<>>)
                  \o (IF operacional THEN <<"Operacional">> ELSE <<>>)
                  \o (IF governanca THEN <<"Governança">> ELSE <<>>)
    IN  IF Len(ativos) = 0 THEN "Nenhum"
        ELSE IF Len(ativos) = 1 THEN ativos[1]
        ELSE "Misto"

\* the logger.warning calls of the else branches reached before statement n + 1
AvisosRiscoAte(d, n) ==
       (IF n >= 1 /\ ~TemColuna(d, "atrasado") THEN {"atrasado"} ELSE {})
    \cup (IF n >= 2 /\ ~TemColuna(d, "status_macro") THEN {"status_macro"} ELSE {})
    \cup (IF n >= 3 /\ ~TemColuna(d, "lead_time") THEN {"lead_time"} ELSE {})
    \cup (IF n >= 4 /\ col_sei(d) = "None" THEN {"SEI"} ELSE {})
    \cup (IF n >= 5 /\ col_resp(d) = "None" THEN {"responsável"} ELSE {})

\* a default column of the except block: set only `if name not in df.columns`
DefaultSeAusente(d, c, v) == IF TemColuna(d, c) THEN d ELSE SetColConst(d, c, v)

\* the try block run to its end
risco_normal(d, c) ==
    LET d1 == SetCol(d, "risco_score", [i \in DOMAIN d.rows |-> I(ScoreAte(d, i, c, 5))])
        d2 == SetCol(d1, "risco_categoria",
                     [i \in DOMAIN d.rows |-> risco_categoria(ScoreAte(d, i, c, 5))])
        d3 == SetCol(d2, "risco_tempo_flag",
                     [i \in DOMAIN d.rows |-> B(risco_tempo_flag(d, i, c))])
        d4 == SetCol(d3, "risco_operacional_flag",
                     [i \in DOMAIN d.rows |-> B(risco_operacional_flag(d, i))])
        d5 == SetCol(d4, "risco_governanca_flag",
                     [i \in DOMAIN d.rows |-> B(risco_governanca_flag(d, i))])
    IN  SetCol(d5, "risco_dimensao_principal",
               [i \in DOMAIN d.rows |->
                   S(dimensao_principal(d5.rows[i]["risco_tempo_flag"].b,
                                        d5.rows[i]["risco_operacional_flag"].b,
                                        d5.rows[i]["risco_governanca_flag"].b))])

\* the except block, entered when statement n + 1 of the scoring raised
risco_except(d, c, n) ==
    LET d1 == SetCol(d, "risco_score", [i \in DOMAIN d.rows |-> I(ScoreAte(d, i, c, n))])
        d2 == DefaultSeAusente(d1, "risco_score", I(0))
        d3 == DefaultSeAusente(d2, "risco_categoria", S("Indefinido"))
        d4 == DefaultSeAusente(d3, "risco_tempo_flag", B(FALSE))
        d5 == DefaultSeAusente(d4, "risco_operacional_flag", B(FALSE))
        d6 == DefaultSeAusente(d5, "risco_governanca_flag", B(FALSE))
    IN  DefaultSeAusente(d6, "risco_dimensao_principal", S("Indefinido"))

\* calcular_risco(df): the table returned, the warnings logged, and whether the
\* except block ran.  No exception leaves the function.
calcular_risco(d, c) ==
    IF LeadLevanta(d)
    THEN [df |-> risco_except(d, c, 2), avisos |-> AvisosRiscoAte(d, 2), erro |-> "capturado"]
    ELSE [df |-> risco_normal(d, c), avisos |-> AvisosRiscoAte(d, 5), erro |-> "nenhum"]

(***************************************************************************)
(* core/etl.py: the loader                                                 *)
(***************************************************************************)
\* the string with the given characters
StrDe(cs) == CHOOSE s \in Strings : Chars(s) = cs

\* map_status with the 'defer' test ahead of the 'cancel' test
map_status_DeferPrimeiro(txt) ==
    IF \/ Contains(txt, Chars("indefer")) \/ Contains(txt, Chars("defer"))
       \/ Contains(txt, Chars("finaliz")) \/ Contains(txt, Chars("conclu"))
    THEN "Concluído"
    ELSE IF Contains(txt, Chars("cancel")) THEN "Cancelado"
    ELSE IF \/ Contains(txt, Chars("andamento")) \/ Contains(txt, Chars("analise"))
            \/ Contains(txt, Chars("análise")) \/ Contains(txt, Chars("pendente"))
         THEN "Em andamento"
    ELSE "Outro"

\* txt is the lowered, trimmed text of a status cell
map_status(txt) ==
    IF Contains(txt, Chars("cancel")) THEN "Cancelado"
    ELSE IF \/ Contains(txt, Chars("indefer")) \/ Contains(txt, Chars("defer"))
            \/ Contains(txt, Chars("finaliz")) \/ Contains(txt, Chars("conclu"))
         THEN "Concluído"
    ELSE IF \/ Contains(txt, Chars("andamento")) \/ Contains(txt, Chars("analise"))
            \/ Contains(txt, Chars("análise")) \/ Contains(txt, Chars("pendente"))
         THEN "Em andamento"
    ELSE "Outro"

possiveis_status == <<"Situação  do Processo", "Situação do Processo", "Situação Processo">>

\* the status_macro column derived from the resolved status column col_status
StatusMacroDe(d, col_status) ==
    [i \in DOMAIN d.rows |->
        S(map_status(StrLower(StrStrip(AsStr(d.rows[i][col_status])))))]

\* _criar_status_macro(df): the table (changed in place) and the warnings logged
criar_status_macro(d) ==
    LET col_status == achar_coluna(d, possiveis_status)
    IN  IF col_status # "None"
        THEN [df |-> SetCol(d, "status_macro", StatusMacroDe(d, col_status)), avisos |-> {}]
        ELSE [df |-> SetColConst(d, "status_macro", S("Indefinido")),
              avisos |-> {"situação do processo"}]

\* core/indicadores.py _garantir_status_macro(df): a copy, left alone when it
\* already has status_macro, else classified as above
garantir_status_macro(d) ==
    IF TemColuna(d, "status_macro") THEN [df |-> d, avisos |-> {}] ELSE criar_status_macro(d)

\* pd.to_datetime(cell, errors="coerce"): a timestamp stays, text that is no date
\* and missing values become NaT
ToDatetime(c) == CASE c.t = "ts" -> c [] c.t = "str" -> NaN [] c.t = "nan" -> NaN

\* Series.fillna(v) of one cell
FillNa(c, v) == IF IsNa(c) THEN v ELSE c

\* (hoje - ts).days with hoje = pd.Timestamp("today").normalize(): the floor of the
\* difference in days, hoje being midnight of day `dia`
DiasAte(dia, ts) == ((dia * 24) - (ts.d * 24 + ts.h)) \div 24

possiveis_data_solic == <<"Data da solicitação", "Data da Solicitação">>

\* _criar_lead_time(df) run on day `dia`
criar_lead_time(d, c, dia) ==
    LET col_data_solic == achar_coluna(d, possiveis_data_solic)
    IN  IF col_data_solic # "None"
        THEN LET d1 == SetCol(d, col_data_solic,
                          [i \in DOMAIN d.rows |->
                              FillNa(ToDatetime(d.rows[i][col_data_solic]), c.DEFAULT_DATE)])
             IN  [df |-> SetCol(d1, "lead_time",
                          [i \in DOMAIN d.rows |-> I(DiasAte(dia, d1.rows[i][col_data_solic]))]),
                  avisos |-> {}]
        ELSE [df |-> SetColConst(d, "lead_time", I(0)), avisos |-> {"data da solicitação"}]

\* Series.astype(str) of one cell, as a cell
AsStrCell(c) ==
    CASE c.t = "str" -> c
      [] c.t = "nan" -> S("nan")

\* len(str(cell).strip()) > 0
NaoVazio(c) == Len(StrStrip(AsStr(c))) > 0

ContemAlgum(txt, pats) == \E k \in DOMAIN pats : Contains(txt, Chars(pats[k]))

\* classificar_complexidade(tipo)
classificar_complexidade(tipo) ==
    LET t == StrLower(AsStr(tipo))
    IN  IF ContemAlgum(t, <<"dispensa", "adesão", "adesao", "ata de registro",
                            "renovação", "renovacao">>) THEN "Baixa"
        ELSE IF ContemAlgum(t, <<"pregão", "pregao", "concorrência", "concorrencia",
                                 "tomada de preços">>) THEN "Alta"
        ELSE IF StrStrip(t) = <<>> \/ t = Chars("nan") THEN "Indefinida"
        ELSE "Média"

possiveis_tipo == <<"Tipo da solicitação", "Tipo da Solicitação", "Tipo Solicitação">>

\* _enriquecer_campos(df): tem_sei, tem_andamento_sei, complexidade_aprox; the
\* missing columns are reported at info level only
enriquecer_campos(d) ==
    LET col_sei_etl == achar_coluna(d, <<"SEI">>)
        d1 == IF col_sei_etl # "None"
              THEN LET t == SetCol(d, col_sei_etl,
                                [i \in DOMAIN d.rows |-> AsStrCell(d.rows[i][col_sei_etl])])
                   IN  SetCol(t, "tem_sei",
                              [i \in DOMAIN d.rows |-> B(NaoVazio(t.rows[i][col_sei_etl]))])
              ELSE SetColConst(d, "tem_sei", B(FALSE))
        col_and_sei == achar_coluna(d1, <<"Andamento SEI">>)
        d2 == IF col_and_sei # "None"
              THEN SetCol(d1, "tem_andamento_sei",
                          [i \in DOMAIN d.rows |-> B(NaoVazio(d1.rows[i][col_and_sei]))])
              ELSE SetColConst(d1, "tem_andamento_sei", B(FALSE))
        col_tipo == achar_coluna(d2, possiveis_tipo)
    IN  IF col_tipo # "None"
        THEN SetCol(d2, "complexidade_aprox",
                    [i \in DOMAIN d.rows |-> S(classificar_complexidade(d2.rows[i][col_tipo]))])
        ELSE SetColConst(d2, "complexidade_aprox", S("Indefinida"))

\* the record r with each of its fields cols[k], from k on, renamed to novos[k]
RECURSIVE Renomeada(_, _, _, _)
Renomeada(r, cols, novos, k) ==
    IF k > Len(cols) THEN <<>>
    ELSE (novos[k] :> r[cols[k]]) @@ Renomeada(r, cols, novos, k + 1)

RECURSIVE Renomeadas(_, _, _, _)
Renomeadas(rows, cols, novos, i) ==
    IF i > Len(rows) THEN <<>>
    ELSE <<Renomeada(rows[i], cols, novos, 1)>> \o Renomeadas(rows, cols, novos, i + 1)

RECURSIVE StripNomes(_)
StripNomes(cols) ==
    IF cols = <<>> THEN <<>>
    ELSE <<StrDe(StrStrip(Chars(Head(cols))))>> \o StripNomes(Tail(cols))

\* df.columns = df.columns.str.strip()
StripColunas(d) ==
    LET novos == StripNomes(d.cols)
    IN  [cols |-> novos, rows |-> Renomeadas(d.rows, d.cols, novos, 1)]

\* preparar_base() after pd.read_excel returned the table x, on day `dia`
preparar_base(x, c, dia) ==
    LET a == criar_lead_time(StripColunas(x), c, dia)
        b == criar_status_macro(a.df)
    IN  [df |-> enriquecer_campos(b.df), avisos |-> a.avisos \cup b.avisos]

(***************************************************************************)
(* core/sla.py: aplicar_sla                                                *)
(***************************************************************************)
\* pd.cut(lead_time, bins=[-1, 30, 60, 90, 180, 365, 10_000], labels=...); the labels
\* are written with a hyphen for their dash
faixa_lead_time(lt) ==
    IF lt > -1 /\ lt <= 30 THEN S("0-30 dias")
    ELSE IF lt > 30 /\ lt <= 60 THEN S("31-60 dias")
    ELSE IF lt > 60 /\ lt <= 90 THEN S("61-90 dias")
    ELSE IF lt > 90 /\ lt <= 180 THEN S("91-180 dias")
    ELSE IF lt > 180 /\ lt <= 365 THEN S("181-365 dias")
    ELSE IF lt > 365 /\ lt <= 10000 THEN S(">365 dias")
    ELSE NaN

\* _criar_faixas_lead_time(df)
criar_faixas_lead_time(d) ==
    LET d0 == IF TemColuna(d, "lead_time") THEN d ELSE SetColConst(d, "lead_time", I(0))
        d1 == SetCol(d0, "faixa_lead_time",
                     [i \in DOMAIN d.rows |-> faixa_lead_time(d0.rows[i]["lead_time"].i)])
    IN  SetCol(d1, "muito_antigo", [i \in DOMAIN d.rows |-> B(d0.rows[i]["lead_time"].i > 365)])

\* MULTIPLIERS.get(chave, 1)
MultipliersGet(MULTIPLIERS, chave) ==
    IF chave \in DOMAIN MULTIPLIERS THEN MULTIPLIERS[chave] ELSE 1

\* _calc_sla(tipo) looking the type up as it is written
calc_sla_SemStrip(tipo, c) ==
    LET chave == StrDe(AsStr(tipo))
    IN  MultipliersGet(c.MULTIPLIERS, chave) * c.SLA_PADRAO

\* _calc_sla(tipo)
calc_sla(tipo, c) ==
    LET chave == StrDe(StrStrip(AsStr(tipo)))
    IN  MultipliersGet(c.MULTIPLIERS, chave) * c.SLA_PADRAO

\* df["lead_time"] > df["sla_final"] raises TypeError on a text cell
SlaLevanta(d) ==
    TemColuna(d, "lead_time") /\ \E i \in DOMAIN d.rows : GtLevanta(d.rows[i]["lead_time"])

\* the statements of the try block up to the lead_time column
sla_inicio(d, c) ==
    LET d1 == SetColConst(d, "sla_base", I(c.SLA_PADRAO))
        col_tipo == achar_coluna(d1, possiveis_tipo)
        d2 == IF col_tipo # "None"
              THEN SetCol(d1, "sla_final",
                          [i \in DOMAIN d.rows |-> I(calc_sla(d1.rows[i][col_tipo], c))])
              ELSE SetColConst(d1, "sla_final", I(c.SLA_PADRAO))
    IN  [df |-> IF TemColuna(d2, "lead_time") THEN d2 ELSE SetColConst(d2, "lead_time", I(0)),
         avisos |-> (IF col_tipo = "None" THEN {"tipo da solicitação"} ELSE {})
                    \cup (IF TemColuna(d2, "lead_time") THEN {} ELSE {"lead_time"})]

\* sla_categoria with 'Atrasado' written last
sla_categoria_AtrasadoPorUltimo(atrasado, atraso_severo) ==
    IF atrasado THEN "Atrasado" ELSE IF atraso_severo THEN "Atraso Severo" ELSE "Dentro do prazo"

\* df["sla_categoria"] = "Dentro do prazo", then 'Atrasado' where atrasado, then
\* 'Atraso Severo' where atraso_severo
sla_categoria(atrasado, atraso_severo) ==
    IF atraso_severo THEN "Atraso Severo" ELSE IF atrasado THEN "Atrasado" ELSE "Dentro do prazo"

\* (df["sla_final"] - df["lead_time"]).astype(int) raises on an empty lead_time
MargemLevanta(d) == \E i \in DOMAIN d.rows : IsNa(d.rows[i]["lead_time"])

\* the flags with atrasado set from the SLA on
sla_flags_MaiorOuIgual(d0, c) ==
    LET lt(i) == d0.rows[i]["lead_time"]
        sf(i) == d0.rows[i]["sla_final"].i
        d1 == SetCol(d0, "atrasado",
                     [i \in DOMAIN d0.rows |-> B(Gt(lt(i), sf(i)) \/ lt(i) = I(sf(i)))])
    IN  SetCol(d1, "atraso_severo",
               [i \in DOMAIN d0.rows |-> B(Gt(lt(i), c.LIMITE_ATRASO_SEVERO))])

\* the flags with atraso_severo measured from the record's SLA
sla_flags_SeveroPeloSla(d0, c) ==
    LET lt(i) == d0.rows[i]["lead_time"]
        sf(i) == d0.rows[i]["sla_final"].i
        d1 == SetCol(d0, "atrasado", [i \in DOMAIN d0.rows |-> B(Gt(lt(i), sf(i)))])
    IN  SetCol(d1, "atraso_severo",
               [i \in DOMAIN d0.rows |-> B(Gt(lt(i), sf(i) + c.LIMITE_ATRASO_SEVERO))])

\* the flags atrasado and atraso_severo
sla_flags(d0, c) ==
    LET lt(i) == d0.rows[i]["lead_time"]
        sf(i) == d0.rows[i]["sla_final"].i
        d1 == SetCol(d0, "atrasado", [i \in DOMAIN d0.rows |-> B(Gt(lt(i), sf(i)))])
    IN  SetCol(d1, "atraso_severo",
               [i \in DOMAIN d0.rows |-> B(Gt(lt(i), c.LIMITE_ATRASO_SEVERO))])

\* the try block with the margin taken as lead_time minus sla_final
sla_normal_MargemInvertida(d0, c) ==
    LET lt(i) == d0.rows[i]["lead_time"]
        sf(i) == d0.rows[i]["sla_final"].i
        d2 == sla_flags(d0, c)
        d3 == SetCol(d2, "margem_sla", [i \in DOMAIN d0.rows |-> I(lt(i).i - sf(i))])
        d4 == SetCol(d3, "sla_categoria",
                     [i \in DOMAIN d0.rows |->
                         S(sla_categoria(d3.rows[i]["atrasado"].b, d3.rows[i]["atraso_severo"].b))])
    IN  criar_faixas_lead_time(d4)

\* the try block run to its end
sla_normal(d0, c) ==
    LET lt(i) == d0.rows[i]["lead_time"]
        sf(i) == d0.rows[i]["sla_final"].i
        d2 == sla_flags(d0, c)
        d3 == SetCol(d2, "margem_sla", [i \in DOMAIN d0.rows |-> I(sf(i) - lt(i).i)])
        d4 == SetCol(d3, "sla_categoria",
                     [i \in DOMAIN d0.rows |->
                         S(sla_categoria(d3.rows[i]["atrasado"].b, d3.rows[i]["atraso_severo"].b))])
    IN  criar_faixas_lead_time(d4)

\* the except block
sla_except(d0) ==
    LET d1 == DefaultSeAusente(d0, "atrasado", B(FALSE))
        d2 == DefaultSeAusente(d1, "atraso_severo", B(FALSE))
        d3 == DefaultSeAusente(d2, "sla_categoria", S("Indefinido"))
        d4 == DefaultSeAusente(d3, "faixa_lead_time", S("Indefinida"))
        d5 == DefaultSeAusente(d4, "muito_antigo", B(FALSE))
    IN  DefaultSeAusente(d5, "margem_sla", I(0))

\* aplicar_sla(df): the table returned (a copy), the warnings logged, and whether
\* the except block ran
aplicar_sla(d, c) ==
    LET a == sla_inicio(d, c)
    IN  IF SlaLevanta(a.df)
        THEN [df |-> sla_except(a.df), avisos |-> a.avisos, erro |-> "capturado"]
        ELSE IF MargemLevanta(a.df)
        THEN [df |-> sla_except(sla_flags(a.df, c)), avisos |-> a.avisos, erro |-> "capturado"]
        ELSE [df |-> sla_normal(a.df, c), avisos |-> a.avisos, erro |-> "nenhum"]

(***************************************************************************)
(* core/etl.py: the cached load                                            *)
(***************************************************************************)
SemTabela == [cols |-> <<>>, rows |-> <<>>]

Arquivo(d) == [estado |-> "ok", tabela |-> d]

SemArquivo == [estado |-> "ausente"]

ArquivoRuim == [estado |-> "corrompido"]

\* salvar_base_parquet writing whatever the cache flag is
salvar_base_parquet_SemFlag(d, c, arquivo, escrita) ==
    LET col_sei_clean == achar_coluna(d, <<"SEI">>)
        df_clean == IF col_sei_clean # "None"
                    THEN SetCol(d, col_sei_clean,
                                [i \in DOMAIN d.rows |-> AsStrCell(d.rows[i][col_sei_clean])])
                    ELSE d
    IN  IF escrita = "ok" THEN Arquivo(df_clean)
        ELSE IF escrita = "falha" THEN arquivo
        ELSE ArquivoRuim

\* salvar_base_parquet(df): the snapshot file after the call.  A write that fails
\* is logged and leaves the file as it was or unreadable.
salvar_base_parquet(d, c, arquivo, escrita) ==
    LET col_sei_clean == achar_coluna(d, <<"SEI">>)
        df_clean == IF col_sei_clean # "None"
                    THEN SetCol(d, col_sei_clean,
                                [i \in DOMAIN d.rows |-> AsStrCell(d.rows[i][col_sei_clean])])
                    ELSE d
    IN  IF ~c.SAVE_PARQUET THEN arquivo
        ELSE IF escrita = "ok" THEN Arquivo(df_clean)
        ELSE IF escrita = "falha" THEN arquivo
        ELSE ArquivoRuim

(***************************************************************************)
(* Inputs: configurations and tables                                       *)
(***************************************************************************)
\* one more than the number of records that follow the first in an input table
MaxLinhas == 2

\* a settings.yaml: weights 20/1/30/2/4 give every subset of conditions its own score
\* and reach 20, 21, 50 and 51
ConfigBase ==
    [PESOS |-> [atraso |-> 20, cancelado |-> 1, lead_time_extremo |-> 30,
                falha_sei |-> 2, sem_responsavel |-> 4],
     LIMITE_LEAD |-> 365,
     SLA_PADRAO |-> 30,
     MULTIPLIERS |-> ("Adesão" :> 2),
     LIMITE_ATRASO_SEVERO |-> 90,
     DEFAULT_DATE |-> Ts(100, 0),
     SAVE_PARQUET |-> FALSE]

\* the settings the risk engine is run under: the base weights, two weights only
\* (the other conditions unconfigured) and large, a negative weight
ConfigsRisco ==
    { ConfigBase,
      [ConfigBase EXCEPT !.PESOS = [atraso |-> 600, cancelado |-> 600]],
      [ConfigBase EXCEPT !.PESOS = [atraso |-> -5, cancelado |-> 25, lead_time_extremo |-> 30,
                                    falha_sei |-> 10, sem_responsavel |-> 10]] }

\* the columns calcular_risco reads, in table order
ColunasRisco == <<"atrasado", "status_macro", "lead_time", "Andamento SEI", "SEI", "Responsável">>

\* the cells an input table may hold in a column
Celulas(col) ==
    CASE col = "atrasado" -> {B(TRUE), B(FALSE), NaN}
      [] col = "status_macro" -> {S("Cancelado"), S("Em andamento")}
      [] col = "lead_time" -> {I(365), I(366), S("abc")}
      [] col = "Andamento SEI" -> {S(" "), S("x"), NaN}
      [] col = "SEI" -> {S(""), S(" 123 ")}
      [] col = "Responsável" -> {S(""), S("Ana"), NaN}

\* the records over the columns cols: every combination of cells
RECURSIVE Linhas(_)
Linhas(cols) ==
    IF cols = <<>> THEN {<<>>}
    ELSE {(Head(cols) :> v) @@ r : v \in Celulas(Head(cols)), r \in Linhas(Tail(cols))}

\* three records that follow the first of a table: no condition true, every
\* condition true, and a text lead_time
Vizinha(col, k) ==
    CASE col = "atrasado" -> IF k = 1 THEN B(FALSE) ELSE B(TRUE)
      [] col = "status_macro" -> IF k = 1 THEN S("Em andamento") ELSE S("Cancelado")
      [] col = "lead_time" -> IF k = 1 THEN I(365) ELSE IF k = 2 THEN I(366) ELSE S("abc")
      [] col = "Andamento SEI" -> IF k = 1 THEN S("x") ELSE S(" ")
      [] col = "SEI" -> IF k = 1 THEN S(" 123 ") ELSE S("")
      [] col = "Responsável" -> IF k = 1 THEN S("Ana") ELSE NaN

LinhasVizinhas(cols) == {[c \in SeqToSet(cols) |-> Vizinha(c, k)] : k \in 1..3}

RECURSIVE SeqsAte(_, _)
SeqsAte(X, n) ==
    IF n = 0 THEN {<<>>} ELSE {<<>>} \cup {<<x>> \o q : x \in X, q \in SeqsAte(X, n - 1)}

\* the input tables with the columns K: a first record of any cells, then fewer
\* than MaxLinhas neighbours
TabelasRisco(K) ==
    LET cols == SelectSeq(ColunasRisco, LAMBDA c : c \in K)
    IN  {[cols |-> cols, rows |-> <<r>> \o q] :
            r \in Linhas(cols), q \in SeqsAte(LinhasVizinhas(cols), MaxLinhas - 1)}

(***************************************************************************)
(* calcular_risco run on any table                                         *)
(***************************************************************************)
InitRisco ==
    /\ cfg \in ConfigsRisco
    /\ \E K \in SUBSET SeqToSet(ColunasRisco) : df \in TabelasRisco(K)
    /\ excel = SemArquivo
    /\ parquet = SemArquivo
    /\ pc = "sla"
    /\ avisos = {}
    /\ erro = "nenhum"
    /\ possiveis = <<>>
    /\ ret = "None"
    /\ hoje = 0

CalcularRisco ==
    /\ pc = "sla"
    /\ LET r == calcular_risco(df, cfg)
       IN  /\ df' = r.df
           /\ avisos' = avisos \cup r.avisos
           /\ erro' = r.erro
    /\ pc' = "fim"
    /\ UNCHANGED <<cfg, excel, parquet, possiveis, ret, hoje>>

NextRisco == CalcularRisco

SpecRisco == InitRisco /\ [][NextRisco]_vars

(***************************************************************************)
(* achar_coluna run on any column list                                     *)
(***************************************************************************)
\* the longest column list of the tables achar_coluna is tried on
MaxColunas == 3

\* column names: spellings of "SEI" and "Andamento SEI" and two other columns
NomesColuna == {"SEI", "sei", " Sei ", "Andamento SEI", "andamento sei", "Orgão", "lead_time"}

\* the candidate lists passed to achar_coluna
Candidatos == {"SEI", " Sei ", "Andamento SEI", "andamento sei", "Data da solicitação"}

ListasCandidatos == {<<a>> : a \in Candidatos} \cup {<<a, b>> : a, b \in Candidatos}

Injetiva(q) == \A i, j \in DOMAIN q : q[i] = q[j] => i = j

\* a table of one record with the given columns
TabelaDeColunas(cols) == [cols |-> cols, rows |-> <<[c \in SeqToSet(cols) |-> S("x")]>>]

TabelasColuna ==
    {TabelaDeColunas(q) : q \in {x \in SeqsAte(NomesColuna, MaxColunas) : Injetiva(x)}}

InitColuna ==
    /\ cfg = ConfigBase
    /\ excel = SemArquivo
    /\ parquet = SemArquivo
    /\ df \in TabelasColuna
    /\ pc = "achar"
    /\ avisos = {}
    /\ erro = "nenhum"
    /\ possiveis \in ListasCandidatos
    /\ ret = "None"
    /\ hoje = 0

AcharColuna ==
    /\ pc = "achar"
    /\ ret' = achar_coluna(df, possiveis)
    /\ pc' = "achou"
    /\ UNCHANGED <<cfg, excel, parquet, df, avisos, erro, possiveis, hoje>>

NextColuna == AcharColuna

SpecColuna == InitColuna /\ [][NextColuna]_vars

(***************************************************************************)
(* _criar_status_macro and _garantir_status_macro run on any status column *)
(***************************************************************************)
\* the process-status texts of the input tables
TextosStatus ==
    {"Cancelado", " CANCELADO ", "Deferido", "Indeferido", "Finalizado", "Concluído",
     "Em andamento", "Em analise", "Em Análise", "Pendente", "Aguardando",
     "Cancelado após deferimento", "Pendente de conclusão"}

CelulasStatus == {S(t) : t \in TextosStatus} \cup {NaN}

\* the name of the one input column: three spellings of the status column, or another column
NomesStatus == {"Situação  do Processo", "Situação do Processo", "SITUAÇÃO DO PROCESSO", "Orgão"}

\* tables with one input column, with or without a status_macro column already there
TabelasStatus(q) ==
    {[cols |-> <<n>>, rows |-> [i \in DOMAIN q |-> (n :> q[i])]] : n \in NomesStatus}
    \cup {[cols |-> <<n, "status_macro">>,
           rows |-> [i \in DOMAIN q |-> (n :> q[i]) @@ ("status_macro" :> S("Outro"))]]
          : n \in NomesStatus}

InitStatus ==
    /\ cfg = ConfigBase
    /\ \E q \in SeqsAte(CelulasStatus, MaxLinhas) \ {<<>>} :
          excel \in {Arquivo(t) : t \in TabelasStatus(q)}
    /\ parquet = SemArquivo
    /\ df = excel.tabela
    /\ pc = "status"
    /\ avisos = {}
    /\ erro = "nenhum"
    /\ possiveis = <<>>
    /\ ret = "None"
    /\ hoje = 0

CriarStatusMacro ==
    /\ pc = "status"
    /\ LET r == criar_status_macro(df)
       IN  df' = r.df /\ avisos' = r.avisos
    /\ pc' = "status_criado"
    /\ UNCHANGED <<cfg, excel, parquet, erro, possiveis, ret, hoje>>

GarantirStatusMacro ==
    /\ pc = "status"
    /\ LET r == garantir_status_macro(df)
       IN  df' = r.df /\ avisos' = r.avisos
    /\ pc' = "status_garantido"
    /\ UNCHANGED <<cfg, excel, parquet, erro, possiveis, ret, hoje>>

NextStatus == CriarStatusMacro \/ GarantirStatusMacro

SpecStatus == InitStatus /\ [][NextStatus]_vars

(***************************************************************************)
(* _criar_lead_time run on any date column                                 *)
(***************************************************************************)
\* the number of days that pass after the first evaluation day
MaxDiasPassados == 1

\* the evaluation days: day 400 and the days after it
Dias == 400..(400 + MaxDiasPassados)

\* submission dates around the evaluation days, at midnight and at noon, text that
\* is no date, and an empty cell
CelulasData == {Ts(d, h) : d \in 398..401, h \in {0, 12}} \cup {S("abc"), NaN}

NomesData == {"Data da solicitação", "DATA DA SOLICITAÇÃO", "Orgão"}

\* tables with one input column holding the cells q
TabelasData(q) ==
    {[cols |-> <<n>>, rows |-> [i \in DOMAIN q |-> (n :> q[i])]] : n \in NomesData}

InitLead ==
    /\ cfg \in {ConfigBase, [ConfigBase EXCEPT !.DEFAULT_DATE = Ts(401, 0)]}
    /\ \E q \in SeqsAte(CelulasData, MaxLinhas) \ {<<>>} :
          excel \in {Arquivo(t) : t \in TabelasData(q)}
    /\ parquet = SemArquivo
    /\ df = excel.tabela
    /\ pc = "lead"
    /\ avisos = {}
    /\ erro = "nenhum"
    /\ possiveis = <<>>
    /\ ret = "None"
    /\ hoje \in Dias

CriarLeadTime ==
    /\ pc = "lead"
    /\ LET r == criar_lead_time(df, cfg, hoje)
       IN  df' = r.df /\ avisos' = r.avisos
    /\ pc' = "lead_criado"
    /\ UNCHANGED <<cfg, excel, parquet, erro, possiveis, ret, hoje>>

NextLead == CriarLeadTime

SpecLead == InitLead /\ [][NextLead]_vars

(***************************************************************************)
(* app.py: the pipeline carregar_base_tratada -> aplicar_sla ->            *)
(* calcular_risco, run again by every new session                          *)
(***************************************************************************)
\* the columns of the source spreadsheet, in sheet order
ColunasPlanilha ==
    <<"Data da solicitação", "Situação do Processo", "Tipo da solicitação",
      "Andamento SEI", "Responsável">>

\* the sheets have every column, every column but one, or none of them
ConjuntosDeColunas ==
    {SeqToSet(ColunasPlanilha), {}}
    \cup {SeqToSet(ColunasPlanilha) \ {c} : c \in SeqToSet(ColunasPlanilha)}

\* the cells a sheet may hold in a column: an old request, one submitted at noon
\* of day 400, an empty date; two status texts; two request types; an empty,
\* blank or filled progress log; an empty or filled owner
CelulasPlanilha(col) ==
    CASE col = "Data da solicitação" -> {Ts(0, 0), Ts(400, 12), NaN}
      [] col = "Situação do Processo" -> {S("Cancelado"), S("Em Análise")}
      [] col = "Tipo da solicitação" -> {S(" Adesão "), S("Pregão")}
      [] col = "Andamento SEI" -> {NaN, S(" ")}
      [] col = "Responsável" -> {NaN, S("Ana")}

RECURSIVE LinhasPlanilha(_)
LinhasPlanilha(cols) ==
    IF cols = <<>> THEN {<<>>}
    ELSE {(Head(cols) :> v) @@ r :
             v \in CelulasPlanilha(Head(cols)), r \in LinhasPlanilha(Tail(cols))}

\* the record that follows the first of a sheet: an old cancelled request with
\* nothing filled in
VizinhaPlanilha(col) ==
    CASE col = "Data da solicitação" -> Ts(0, 0)
      [] col = "Situação do Processo" -> S("Cancelado")
      [] col = "Tipo da solicitação" -> NaN
      [] col = "Andamento SEI" -> S("")
      [] col = "Responsável" -> S(" ")

VizinhasPlanilha(cols) == {[c \in SeqToSet(cols) |-> VizinhaPlanilha(c)]}

\* the sheets with the columns K: a first record of any cells, then fewer than
\* MaxLinhas neighbours
Planilhas(K) ==
    LET cols == SelectSeq(ColunasPlanilha, LAMBDA c : c \in K)
    IN  {[cols |-> cols, rows |-> <<r>> \o q] :
            r \in LinhasPlanilha(cols),
            q \in SeqsAte(VizinhasPlanilha(cols), MaxLinhas - 1)}

\* the settings of the pipeline: the base or large weights, the cache on or off
Configs ==
    {[c EXCEPT !.SAVE_PARQUET = b] :
        c \in {ConfigBase, [ConfigBase EXCEPT !.PESOS = [atraso |-> 600, cancelado |-> 600]]},
        b \in BOOLEAN}

\* a snapshot left by a load of day 399, made with the cache enabled, of a sheet
\* with one request submitted on day 390: the table preparar_base made of it
SnapshotAntigo ==
    [cols |-> <<"Data da solicitação", "lead_time", "status_macro", "tem_sei",
                "tem_andamento_sei", "complexidade_aprox">>,
     rows |-> <<("Data da solicitação" :> Ts(390, 0))
                @@ ("lead_time" :> I(9))
                @@ ("status_macro" :> S("Indefinido"))
                @@ ("tem_sei" :> B(FALSE))
                @@ ("tem_andamento_sei" :> B(FALSE))
                @@ ("complexidade_aprox" :> S("Indefinida"))>>]

Init ==
    /\ cfg \in Configs
    /\ \/ excel = SemArquivo
       \/ \E K \in ConjuntosDeColunas : excel \in {Arquivo(t) : t \in Planilhas(K)}
    /\ parquet \in {SemArquivo, ArquivoRuim, Arquivo(SnapshotAntigo)}
    /\ df = SemTabela
    /\ pc = "inicio"
    /\ avisos = {}
    /\ erro = "nenhum"
    /\ possiveis = <<>>
    /\ ret = "None"
    /\ hoje = 400

\* carregar_base_tratada() catching only a missing snapshot file: an unreadable
\* one raises out of the call
CarregarBaseTratada_SoArquivoAusente ==
    /\ pc = "inicio"
    /\ IF cfg.SAVE_PARQUET /\ parquet.estado = "ok"
       THEN /\ df' = parquet.tabela
            /\ pc' = "carregado"
            /\ UNCHANGED <<parquet, avisos, erro>>
       ELSE IF excel.estado # "ok" \/ (cfg.SAVE_PARQUET /\ parquet.estado = "corrompido")
       THEN /\ erro' = "propagado"
            /\ pc' = "falha"
            /\ avisos' = {}
            /\ UNCHANGED <<parquet, df>>
       ELSE LET r == preparar_base(excel.tabela, cfg, hoje)
            IN  /\ df' = r.df
                /\ \E escrita \in {"ok", "falha", "parcial"} :
                      parquet' = salvar_base_parquet(r.df, cfg, parquet, escrita)
                /\ avisos' = r.avisos \cup (IF cfg.SAVE_PARQUET THEN {"parquet"} ELSE {})
                /\ pc' = "carregado"
                /\ UNCHANGED erro
    /\ UNCHANGED <<cfg, excel, possiveis, ret, hoje>>

\* carregar_base_tratada(): the snapshot when the cache is on and the file reads,
\* else preparar_base() and salvar_base_parquet(); a spreadsheet that cannot be
\* read raises out of the call
CarregarBaseTratada ==
    /\ pc = "inicio"
    /\ IF cfg.SAVE_PARQUET /\ parquet.estado = "ok"
       THEN /\ df' = parquet.tabela
            /\ pc' = "carregado"
            /\ UNCHANGED <<parquet, avisos, erro>>
       ELSE IF excel.estado # "ok"
       THEN /\ erro' = "propagado"
            /\ pc' = "falha"
            /\ avisos' = IF cfg.SAVE_PARQUET THEN {"parquet"} ELSE {}
            /\ UNCHANGED <<parquet, df>>
       ELSE LET r == preparar_base(excel.tabela, cfg, hoje)
            IN  /\ df' = r.df
                /\ \E escrita \in {"ok", "falha", "parcial"} :
                      parquet' = salvar_base_parquet(r.df, cfg, parquet, escrita)
                /\ avisos' = r.avisos \cup (IF cfg.SAVE_PARQUET THEN {"parquet"} ELSE {})
                /\ pc' = "carregado"
                /\ UNCHANGED erro
    /\ UNCHANGED <<cfg, excel, possiveis, ret, hoje>>

AplicarSla ==
    /\ pc = "carregado"
    /\ LET r == aplicar_sla(df, cfg)
       IN  /\ df' = r.df
           /\ avisos' = avisos \cup r.avisos
           /\ erro' = r.erro
    /\ pc' = "sla"
    /\ UNCHANGED <<cfg, excel, parquet, possiveis, ret, hoje>>

\* main with the except handlers calling render_dashboard all the same
MainExcept_Render ==
    /\ pc = "falha"
    /\ pc' = "painel"
    /\ UNCHANGED <<cfg, excel, parquet, df, avisos, erro, possiveis, ret, hoje>>

\* main: an exception out of carregar_dados is shown (st.error, st.exception) and
\* main returns
MainExcept ==
    /\ pc = "falha"
    /\ pc' = "erro_mostrado"
    /\ UNCHANGED <<cfg, excel, parquet, df, avisos, erro, possiveis, ret, hoje>>

\* main: render_dashboard(df), which computes the risk fields when the table
\* lacks them and then draws the filters and the tabs
RenderDashboard ==
    /\ pc = "fim"
    /\ df' = IF ~TemColuna(df, "risco_score") \/ ~TemColuna(df, "risco_categoria")
             THEN calcular_risco(df, cfg).df
             ELSE df
    /\ pc' = "painel"
    /\ UNCHANGED <<cfg, excel, parquet, avisos, erro, possiveis, ret, hoje>>

\* a new session starts, the same day or a later one
NovaSessao ==
    /\ pc \in {"painel", "erro_mostrado"}
    /\ hoje' \in {hoje, hoje + 1} \cap Dias
    /\ df' = SemTabela
    /\ avisos' = {}
    /\ erro' = "nenhum"
    /\ pc' = "inicio"
    /\ UNCHANGED <<cfg, excel, parquet, possiveis, ret>>

Next ==
    \/ CarregarBaseTratada
    \/ AplicarSla
    \/ CalcularRisco
    \/ RenderDashboard
    \/ MainExcept
    \/ NovaSessao

Spec == Init /\ [][Next]_vars

(***************************************************************************)
(* The pipeline as a whole                                                 *)
(***************************************************************************)
\* C4: after carregar_base_tratada, aplicar_sla and calcular_risco have run, every
\* record has a status_macro and a risco_categoria, neither of them null
C4_TotalClassification ==
    pc = "fim" =>
        \A i \in DOMAIN df.rows :
            /\ df.rows[i]["status_macro"].t = "str"
            /\ df.rows[i]["risco_categoria"].t = "str"

(***************************************************************************)
(* aplicar_sla and then calcular_risco run on any table                    *)
(***************************************************************************)
\* the settings the SLA engine is run under: the base settings, a longer base
\* with two multipliers, and a negative base
ConfigsSla ==
    { ConfigBase,
      [ConfigBase EXCEPT !.SLA_PADRAO = 45, !.MULTIPLIERS = ("Adesão" :> 4) @@ ("Pregão" :> 2),
                         !.LIMITE_ATRASO_SEVERO = 60],
      [ConfigBase EXCEPT !.SLA_PADRAO = -1] }

\* the columns of the tables aplicar_sla is run on, in table order; the
\* request-type column goes under one of two spellings
ColunasSla == <<"Tipo da solicitação", "TIPO DA SOLICITAÇÃO", "lead_time", "status_macro", "Responsável">>

ConjuntosDeColunasSla ==
    {K \in SUBSET SeqToSet(ColunasSla) :
        ~({"Tipo da solicitação", "TIPO DA SOLICITAÇÃO"} \subseteq K)}

\* the cells of a column: lead times on both sides of every SLA, severity and
\* aging boundary, an empty one and a text; request types with and without a
\* multiplier, in other spellings, and an empty one
CelulasSla(col) ==
    CASE col \in {"Tipo da solicitação", "TIPO DA SOLICITAÇÃO"} ->
            {S("Adesão"), S(" Adesão "), S("adesão"), S("Pregão"), NaN}
      [] col = "lead_time" ->
            {I(n) : n \in {-1, 0, 30, 31, 60, 61, 90, 91, 180, 181, 365, 366, 10000, 10001}}
            \cup {NaN, S("abc")}
      [] col = "status_macro" -> {S("Cancelado"), S("Em andamento")}
      [] col = "Responsável" -> {NaN, S("Ana")}

RECURSIVE LinhasSla(_)
LinhasSla(cols) ==
    IF cols = <<>> THEN {<<>>}
    ELSE {(Head(cols) :> v) @@ r : v \in CelulasSla(Head(cols)), r \in LinhasSla(Tail(cols))}

\* two records that follow the first of a table: one a day over the base SLA, and
\* one of a type with a multiplier and a lead time over every limit
VizinhaSla(col, k) ==
    CASE col \in {"Tipo da solicitação", "TIPO DA SOLICITAÇÃO"} ->
            IF k = 1 THEN S("Serviço") ELSE S(" Adesão ")
      [] col = "lead_time" -> IF k = 1 THEN I(31) ELSE I(400)
      [] col = "status_macro" -> IF k = 1 THEN S("Em andamento") ELSE S("Cancelado")
      [] col = "Responsável" -> IF k = 1 THEN S("Ana") ELSE S(" ")

VizinhasSla(cols) == {[c \in SeqToSet(cols) |-> VizinhaSla(c, k)] : k \in 1..2}

\* the tables with the columns K: a first record of any cells, then fewer than
\* MaxLinhas neighbours
TabelasSla(K) ==
    LET cols == SelectSeq(ColunasSla, LAMBDA c : c \in K)
    IN  {[cols |-> cols, rows |-> <<r>> \o q] :
            r \in LinhasSla(cols), q \in SeqsAte(VizinhasSla(cols), MaxLinhas - 1)}

\* excel keeps the table as it was handed to aplicar_sla
InitSla ==
    /\ cfg \in ConfigsSla
    /\ \E K \in ConjuntosDeColunasSla : excel \in {Arquivo(t) : t \in TabelasSla(K)}
    /\ parquet = SemArquivo
    /\ df = excel.tabela
    /\ pc = "carregado"
    /\ avisos = {}
    /\ erro = "nenhum"
    /\ possiveis = <<>>
    /\ ret = "None"
    /\ hoje = 0

NextSla == AplicarSla \/ CalcularRisco

SpecSla == InitSla /\ [][NextSla]_vars

(***************************************************************************)
(* calcular_risco run on tables whose progress-log and owner columns are   *)
(* spelled in other letter cases or with surrounding blanks                *)
(***************************************************************************)
GrafiasSei == {"SEI", "sei", " Sei ", "Andamento SEI", "andamento sei", "ANDAMENTO SEI"}

GrafiasResponsavel == {"Responsável", "RESPONSÁVEL", "responsável"}

\* at most one progress-log column and at most one owner column, in either order
ColunasAlias ==
    {<<>>}
    \cup {<<a>> : a \in GrafiasSei \cup GrafiasResponsavel}
    \cup {<<a, b>> : a \in GrafiasSei, b \in GrafiasResponsavel}
    \cup {<<b, a>> : a \in GrafiasSei, b \in GrafiasResponsavel}

CelulasAlias(col) ==
    IF col \in GrafiasSei THEN {S(""), S(" "), S(" 123 ")}
    ELSE {NaN, S(""), S(" "), S("Ana")}

RECURSIVE LinhasAlias(_)
LinhasAlias(cols) ==
    IF cols = <<>> THEN {<<>>}
    ELSE {(Head(cols) :> v) @@ r : v \in CelulasAlias(Head(cols)), r \in LinhasAlias(Tail(cols))}

\* a record that follows the first of a table: nothing filled in
VizinhaAlias(cols) == [c \in SeqToSet(cols) |-> S("")]

TabelasAlias(cols) ==
    {[cols |-> cols, rows |-> <<r>> \o q] :
        r \in LinhasAlias(cols), q \in SeqsAte({VizinhaAlias(cols)}, MaxLinhas - 1)}

\* excel keeps the table as it was handed to calcular_risco
InitAlias ==
    /\ cfg \in ConfigsRisco
    /\ \E cols \in ColunasAlias : excel \in {Arquivo(t) : t \in TabelasAlias(cols)}
    /\ parquet = SemArquivo
    /\ df = excel.tabela
    /\ pc = "sla"
    /\ avisos = {}
    /\ erro = "nenhum"
    /\ possiveis = <<>>
    /\ ret = "None"
    /\ hoje = 0

NextAlias == CalcularRisco

SpecAlias == InitAlias /\ [][NextAlias]_vars

(***************************************************************************)
(* core/indicadores.py: the aggregators.  Each one gives the set of its    *)
(* outcomes: what it returned, and whether an exception was caught inside  *)
(* ("capturado") or left the function ("propagado").                       *)
(***************************************************************************)
\* pd.DataFrame()
DataFrameVazio == [cols |-> <<>>, rows |-> <<>>]

\* the dict {}
DictVazio == [vazio |-> TRUE]

Dict(kpis) == [vazio |-> FALSE, kpis |-> kpis]

Retorna(r) == {[ret |-> r, erro |-> "nenhum"]}

Capturado(r) == {[ret |-> r, erro |-> "capturado"]}

Propagado == {[ret |-> "None", erro |-> "propagado"]}

\* _garantir_atrasado(df)
garantir_atrasado(d) == DefaultSeAusente(d, "atrasado", B(FALSE))

\* df[df["atrasado"]] raises on a mask that has a cell that is not a boolean
MascaraLevanta(d) == \E i \in DOMAIN d.rows : d.rows[i]["atrasado"].t # "bool"

\* len(df[df[col] == v])
Conta(d, col, v) == Cardinality({i \in DOMAIN d.rows : d.rows[i][col] = v})

\* the quotient a / n rounded to the nearest whole number, halves to the even one
\* (a >= 0, n > 0)
Arredonda(a, n) ==
    LET q == a \div n
        r == a % n
    IN  IF 2 * r < n THEN q
        ELSE IF 2 * r > n THEN q + 1
        ELSE IF q % 2 = 0 THEN q ELSE q + 1

\* the rate with its third decimal cut off instead of rounded
Taxa_Trunca(parte, total) == IF total > 0 THEN (parte * 10000) \div total ELSE 0

\* round((parte / total) * 100, 2) if total > 0 else 0, in hundredths of a percent
Taxa(parte, total) == IF total > 0 THEN Arredonda(parte * 10000, total) ELSE 0

\* calcular_kpis_executivos(df)
calcular_kpis_executivos(d) ==
    LET d1 == garantir_atrasado(garantir_status_macro(d).df)
        total == Len(d1.rows)
        concluido == Conta(d1, "status_macro", S("Concluído"))
        atrasado == Conta(d1, "atrasado", B(TRUE))
        cancelado == Conta(d1, "status_macro", S("Cancelado"))
    IN  IF MascaraLevanta(d1) THEN Capturado(DictVazio)
        ELSE Retorna(Dict(("Total Solicitações" :> total)
                          @@ ("Concluídas" :> concluido)
                          @@ ("Atrasadas" :> atrasado)
                          @@ ("Canceladas" :> cancelado)
                          @@ ("Taxa Conclusão (%)" :> Taxa(concluido, total))
                          @@ ("Taxa Atraso (%)" :> Taxa(atrasado, total))))

RECURSIVE Insere(_, _)
Insere(v, x) ==
    IF v = <<>> THEN <<x>>
    ELSE IF x < Head(v) THEN <<x>> \o v
    ELSE <<Head(v)>> \o Insere(Tail(v), x)

RECURSIVE OrdenaAsc(_)
OrdenaAsc(q) == IF q = <<>> THEN <<>> ELSE Insere(OrdenaAsc(Tail(q)), Head(q))

RECURSIVE Soma(_)
Soma(q) == IF q = <<>> THEN 0 ELSE Head(q) + Soma(Tail(q))

\* the lead times of the records, the empty ones skipped, in ascending order
LeadsOrdenados(rows) ==
    LET com == SelectSeq(rows, LAMBDA r : r["lead_time"].t = "int")
    IN  OrdenaAsc([k \in DOMAIN com |-> com[k]["lead_time"].i])

\* Series.quantile(q / 100) by linear interpolation over the sorted values v, in
\* hundredths
Quantil(v, q) ==
    LET pos == q * (Len(v) - 1)
        lo == pos \div 100 + 1
        hi == IF lo < Len(v) THEN lo + 1 ELSE lo
    IN  v[lo] * 100 + (pos % 100) * (v[hi] - v[lo])

\* a / n rounded to the nearest whole number, halves to the even one, for any sign
\* of a
ArredondaSinal(a, n) == IF a >= 0 THEN Arredonda(a, n) ELSE 0 - Arredonda(0 - a, n)

\* int(x) of a value in hundredths: the fraction is cut off
Trunca(x) == IF x >= 0 THEN x \div 100 ELSE 0 - ((0 - x) \div 100)

\* mean, median and quantiles raise on a text
EstatisticaLevanta(rows) == \E i \in DOMAIN rows : rows[i]["lead_time"].t = "str"

possiveis_resp_kpis == <<"Responsável", "Responsável Técnico", "Responsavel Tecnico">>

\* calcular_kpis_avancados(df): lead_media and lead_mediana in tenths.  With a
\* lead_time column that has no number every statistic is NaN and int(NaN) raises.
calcular_kpis_avancados(d) ==
    LET total == Len(d.rows)
        comLead == TemColuna(d, "lead_time") /\ total > 0
        v == IF comLead THEN LeadsOrdenados(d.rows) ELSE <<>>
        muito_antigo == IF TemColuna(d, "muito_antigo")
                        THEN Conta(d, "muito_antigo", B(TRUE)) ELSE 0
        sem_sei == IF TemColuna(d, "tem_sei") THEN Conta(d, "tem_sei", B(FALSE)) ELSE 0
        col_resp_kpis == achar_coluna(d, possiveis_resp_kpis)
        sem_resp == IF col_resp_kpis = "None" THEN 0
                    ELSE Cardinality({i \in DOMAIN d.rows :
                            \/ IsNa(d.rows[i][col_resp_kpis])
                            \/ StrStrip(AsStr(d.rows[i][col_resp_kpis])) = <<>>})
    IN  IF comLead /\ (EstatisticaLevanta(d.rows) \/ v = <<>>) THEN Capturado(DictVazio)
        ELSE Retorna(Dict(
                [lead_media |-> IF comLead THEN ArredondaSinal(10 * Soma(v), Len(v)) ELSE 0,
                 lead_mediana |-> IF comLead THEN ArredondaSinal(Quantil(v, 50), 10) ELSE 0,
                 lead_p75 |-> IF comLead THEN Trunca(Quantil(v, 75)) ELSE 0,
                 lead_p90 |-> IF comLead THEN Trunca(Quantil(v, 90)) ELSE 0,
                 lead_p95 |-> IF comLead THEN Trunca(Quantil(v, 95)) ELSE 0,
                 qtd_muito_antigo |-> muito_antigo,
                 qtd_sem_sei |-> sem_sei,
                 qtd_sem_responsavel |-> sem_resp]))

\* every order of the members of a set
RECURSIVE Permutacoes(_)
Permutacoes(K) ==
    IF K = {} THEN {<<>>}
    ELSE UNION {{<<x>> \o p : p \in Permutacoes(K \ {x})} : x \in K}

\* a < b on strings, character by character
RECURSIVE SeqMenor(_, _)
SeqMenor(a, b) ==
    IF a = <<>> THEN b # <<>>
    ELSE IF b = <<>> THEN FALSE
    ELSE IF Ord(Head(a)) < Ord(Head(b)) THEN TRUE
    ELSE IF Ord(Head(a)) > Ord(Head(b)) THEN FALSE
    ELSE SeqMenor(Tail(a), Tail(b))

\* the text cells of a set in ascending order
RECURSIVE OrdenaChaves(_)
OrdenaChaves(K) ==
    IF K = {} THEN <<>>
    ELSE LET m == CHOOSE x \in K : \A y \in K \ {x} : SeqMenor(Chars(x.s), Chars(y.s))
         IN  <<m>> \o OrdenaChaves(K \ {m})

\* the groups of groupby(col): the values of the column, the empty ones left out
Chaves(d, col) == {d.rows[i][col] : i \in DOMAIN d.rows} \ {NaN}

\* funil_operacional(df): the values of status_macro by falling count, equal counts
\* in any order; percentual in hundredths of a percent
funil_operacional(d) ==
    LET d1 == garantir_status_macro(d).df
        valores == {d1.rows[i]["status_macro"] : i \in DOMAIN d1.rows}
        ordens == {q \in Permutacoes(valores) :
                      \A a, b \in DOMAIN q :
                          a < b => Conta(d1, "status_macro", q[a]) >= Conta(d1, "status_macro", q[b])}
    IN  UNION {Retorna([cols |-> <<"status_macro", "quantidade", "percentual">>,
                        rows |-> [k \in DOMAIN q |->
                                    [status_macro |-> q[k],
                                     quantidade |-> I(Conta(d1, "status_macro", q[k])),
                                     percentual |-> I(Taxa(Conta(d1, "status_macro", q[k]),
                                                           Len(d1.rows)))]]]) :
               q \in ordens}

possiveis_nucleo == <<"Núcleo Pertencente", "Núcleo", "Nucleo">>

\* produtividade_por_nucleo(df): one row a group, one column a status, the share
\* of 'Concluído' in hundredths of a percent.  Without a group the reshaping of
\* the empty counts returns an empty table or raises inside the try block.
produtividade_por_nucleo(d) ==
    LET d1 == garantir_status_macro(d).df
        col_nucleo == achar_coluna(d1, possiveis_nucleo)
        grupos == OrdenaChaves(Chaves(d1, col_nucleo))
        dentro == {i \in DOMAIN d1.rows : ~IsNa(d1.rows[i][col_nucleo])}
        status == OrdenaChaves({d1.rows[i]["status_macro"] : i \in dentro} \ {NaN})
        nomes == [k \in DOMAIN status |-> status[k].s]
        n(g, s) == Cardinality({i \in dentro : /\ d1.rows[i][col_nucleo] = g
                                               /\ d1.rows[i]["status_macro"] = s})
        soma(g) == Cardinality({i \in dentro : /\ d1.rows[i][col_nucleo] = g
                                               /\ ~IsNa(d1.rows[i]["status_macro"])})
        conclusao(g) == IF S("Concluído") \in SeqToSet(status)
                        THEN Taxa(n(g, S("Concluído")), soma(g)) ELSE 0
        tabela == [cols |-> nomes \o <<"Conclusão (%)">>,
                   index |-> grupos,
                   rows |-> [k \in DOMAIN grupos |->
                                [c \in SeqToSet(nomes) |-> I(n(grupos[k], S(c)))]
                                @@ ("Conclusão (%)" :> I(conclusao(grupos[k])))]]
    IN  IF col_nucleo = "None" THEN Retorna(DataFrameVazio)
        ELSE IF grupos = <<>> THEN Retorna(tabela) \cup Capturado(DataFrameVazio)
        ELSE Retorna(tabela)

\* record x comes before record y in sort_values("lead_time", ascending=False): the
\* larger first, the empty ones last
VemAntes(x, y) == x["lead_time"].t = "int" /\ (IsNa(y["lead_time"]) \/ x["lead_time"].i > y["lead_time"].i)

\* comparing a text with a number raises
OrdenacaoLevanta(rows) ==
    /\ \E i \in DOMAIN rows : rows[i]["lead_time"].t = "str"
    /\ \E i \in DOMAIN rows : rows[i]["lead_time"].t = "int"

\* the first n records by falling risco_score instead of lead_time
top_processos_criticos_PorRisco(d, n) ==
    LET chave == IF TemColuna(d, "risco_score") THEN "risco_score" ELSE "lead_time"
        ordens == {p \in Permutacoes(DOMAIN d.rows) :
                      \A a, b \in DOMAIN p : a < b =>
                          ~(d.rows[p[b]][chave].t = "int" /\
                              (IsNa(d.rows[p[a]][chave]) \/
                               d.rows[p[b]][chave].i > d.rows[p[a]][chave].i))}
        m == IF n < Len(d.rows) THEN n ELSE Len(d.rows)
    IN  IF ~TemColuna(d, "lead_time") THEN Retorna(DataFrameVazio)
        ELSE IF OrdenacaoLevanta(d.rows) THEN Capturado(DataFrameVazio)
        ELSE UNION {Retorna([cols |-> d.cols, rows |-> [k \in 1..m |-> d.rows[p[k]]]]) :
                    p \in ordens}

\* top_processos_criticos(df, n): the first n records by falling lead_time, equal
\* lead times in any order (lead times are numbers or empty)
top_processos_criticos(d, n) ==
    LET ordens == {p \in Permutacoes(DOMAIN d.rows) :
                      \A a, b \in DOMAIN p : a < b => ~VemAntes(d.rows[p[b]], d.rows[p[a]])}
        m == IF n < Len(d.rows) THEN n ELSE Len(d.rows)
    IN  IF ~TemColuna(d, "lead_time") THEN Retorna(DataFrameVazio)
        ELSE IF OrdenacaoLevanta(d.rows) THEN Capturado(DataFrameVazio)
        ELSE UNION {Retorna([cols |-> d.cols, rows |-> [k \in 1..m |-> d.rows[p[k]]]]) :
                    p \in ordens}

\* tabela_taxa_atraso_por(df, coluna): no try block; the groups by falling rate,
\* equal rates in any order; the rate in hundredths of a percent
tabela_taxa_atraso_por(d, coluna) ==
    LET d1 == garantir_atrasado(d)
        grupos == Chaves(d1, coluna)
        total(g) == Conta(d1, coluna, g)
        atrasadas(g) == Cardinality({i \in DOMAIN d1.rows : /\ d1.rows[i][coluna] = g
                                                            /\ d1.rows[i]["atrasado"] = B(TRUE)})
        taxa(g) == Taxa(atrasadas(g), total(g))
        ordens == {q \in Permutacoes(grupos) :
                      \A a, b \in DOMAIN q : a < b => taxa(q[a]) >= taxa(q[b])}
    IN  IF ~TemColuna(d, coluna) THEN Retorna(DataFrameVazio)
        ELSE IF MascaraLevanta(d1) THEN Propagado
        ELSE UNION {Retorna([cols |-> <<coluna, "Total", "Atrasadas", "Taxa Atraso (%)">>,
                             rows |-> [k \in DOMAIN q |->
                                         (coluna :> q[k])
                                         @@ [Total |-> I(total(q[k])),
                                             Atrasadas |-> I(atrasadas(q[k]))]
                                         @@ ("Taxa Atraso (%)" :> I(taxa(q[k])))]]) :
                    q \in ordens}

\* a statistic of a group in tenths, NaN for a group without a number
Decimo(v, x) == IF v = <<>> THEN NaN ELSE I(x)

\* tabela_leadtime_por testing for the grouping column only: the selection of a
\* missing lead_time raises KeyError
tabela_leadtime_por_SemGuarda(d, coluna) ==
    LET grupos == OrdenaChaves(Chaves(d, coluna))
        v(g) == LeadsOrdenados(SelectSeq(d.rows, LAMBDA r : r[coluna] = g))
        linha(g) ==
            (coluna :> g)
            @@ ("Total" :> I(Len(v(g))))
            @@ ("Média" :> Decimo(v(g), ArredondaSinal(10 * Soma(v(g)), Len(v(g)))))
            @@ ("Mediana" :> Decimo(v(g), ArredondaSinal(Quantil(v(g), 50), 10)))
            @@ ("P75" :> Decimo(v(g), ArredondaSinal(Quantil(v(g), 75), 10)))
            @@ ("P90" :> Decimo(v(g), ArredondaSinal(Quantil(v(g), 90), 10)))
    IN  IF ~TemColuna(d, coluna) THEN Retorna(DataFrameVazio)
        ELSE IF ~TemColuna(d, "lead_time") THEN Propagado
        ELSE IF EstatisticaLevanta(d.rows) THEN Propagado
        ELSE Retorna([cols |-> <<coluna, "Total", "Média", "Mediana", "P75", "P90">>,
                      rows |-> [k \in DOMAIN grupos |-> linha(grupos[k])]])

\* tabela_leadtime_por(df, coluna): no try block; one row a group, in the order of
\* the groups, the statistics in tenths
tabela_leadtime_por(d, coluna) ==
    LET grupos == OrdenaChaves(Chaves(d, coluna))
        v(g) == LeadsOrdenados(SelectSeq(d.rows, LAMBDA r : r[coluna] = g))
        linha(g) ==
            (coluna :> g)
            @@ ("Total" :> I(Len(v(g))))
            @@ ("Média" :> Decimo(v(g), ArredondaSinal(10 * Soma(v(g)), Len(v(g)))))
            @@ ("Mediana" :> Decimo(v(g), ArredondaSinal(Quantil(v(g), 50), 10)))
            @@ ("P75" :> Decimo(v(g), ArredondaSinal(Quantil(v(g), 75), 10)))
            @@ ("P90" :> Decimo(v(g), ArredondaSinal(Quantil(v(g), 90), 10)))
    IN  IF ~TemColuna(d, coluna) \/ ~TemColuna(d, "lead_time") THEN Retorna(DataFrameVazio)
        ELSE IF EstatisticaLevanta(d.rows) THEN Propagado
        ELSE Retorna([cols |-> <<coluna, "Total", "Média", "Mediana", "P75", "P90">>,
                      rows |-> [k \in DOMAIN grupos |-> linha(grupos[k])]])

(***************************************************************************)
(* An aggregator called on any table                                       *)
(***************************************************************************)
\* the columns the aggregators read, in table order
ColunasIndicadores ==
    <<"Núcleo", "Responsável", "status_macro", "lead_time", "atrasado", "muito_antigo", "tem_sei",
      "risco_score">>

\* the most records of a table handed to an aggregator: three make a rate that
\* is no whole number of hundredths
MaxRegistros == 3

\* the cells of a column; atrasado and lead_time also with an empty cell
CelulasIndicadores(col) ==
    CASE col = "Núcleo" -> {S("x"), S("Ana"), NaN}
      [] col = "Responsável" -> {S("Ana"), S(" ")}
      [] col = "status_macro" -> {S("Concluído"), S("Cancelado")}
      [] col = "lead_time" -> {I(5), I(400), NaN}
      [] col = "atrasado" -> {B(TRUE), B(FALSE), NaN}
      [] col = "muito_antigo" -> {B(TRUE), B(FALSE)}
      [] col = "tem_sei" -> {B(TRUE), B(FALSE)}
      [] col = "risco_score" -> {I(0), I(50)}

RECURSIVE LinhasIndicadores(_)
LinhasIndicadores(cols) ==
    IF cols = <<>> THEN {<<>>}
    ELSE {(Head(cols) :> v) @@ r :
            v \in CelulasIndicadores(Head(cols)), r \in LinhasIndicadores(Tail(cols))}

\* a record that follows the first of a table: concluded, breached, of group 'x'
VizinhaIndicadores(col) ==
    CASE col = "Núcleo" -> S("x")
      [] col = "Responsável" -> S("Ana")
      [] col = "status_macro" -> S("Concluído")
      [] col = "lead_time" -> I(400)
      [] col = "atrasado" -> B(TRUE)
      [] col = "muito_antigo" -> B(TRUE)
      [] col = "tem_sei" -> B(FALSE)
      [] col = "risco_score" -> I(0)

\* the tables with the columns K: no record, or a first record of any cells and
\* then fewer than MaxRegistros neighbours
TabelasIndicadores(K) ==
    LET cols == SelectSeq(ColunasIndicadores, LAMBDA c : c \in K)
        vizinha == [c \in K |-> VizinhaIndicadores(c)]
    IN  {[cols |-> cols, rows |-> <<>>]}
        \cup {[cols |-> cols, rows |-> <<r>> \o q] :
                r \in LinhasIndicadores(cols), q \in SeqsAte({vizinha}, MaxRegistros - 1)}

\* the grouping columns the dashboard asks the two tables for
ColunasDeGrupo == {"Núcleo", "Orgão"}

InitIndicadores ==
    /\ cfg = ConfigBase
    /\ \E K \in SUBSET SeqToSet(ColunasIndicadores) : df \in TabelasIndicadores(K)
    /\ excel = SemArquivo
    /\ parquet = SemArquivo
    /\ pc = "painel"
    /\ avisos = {}
    /\ erro = "nenhum"
    /\ possiveis = <<>>
    /\ ret = "None"
    /\ hoje = 0

\* a call of an aggregator: the function and its arguments in pc and possiveis,
\* the outcome in ret and erro
CalcularKpisExecutivos ==
    /\ pc = "painel"
    /\ \E r \in calcular_kpis_executivos(df) : ret' = r.ret /\ erro' = r.erro
    /\ pc' = "calcular_kpis_executivos"
    /\ possiveis' = <<>>
    /\ UNCHANGED <<cfg, excel, parquet, df, avisos, hoje>>

CalcularKpisAvancados ==
    /\ pc = "painel"
    /\ \E r \in calcular_kpis_avancados(df) : ret' = r.ret /\ erro' = r.erro
    /\ pc' = "calcular_kpis_avancados"
    /\ possiveis' = <<>>
    /\ UNCHANGED <<cfg, excel, parquet, df, avisos, hoje>>

FunilOperacional ==
    /\ pc = "painel"
    /\ \E r \in funil_operacional(df) : ret' = r.ret /\ erro' = r.erro
    /\ pc' = "funil_operacional"
    /\ possiveis' = <<>>
    /\ UNCHANGED <<cfg, excel, parquet, df, avisos, hoje>>

ProdutividadePorNucleo ==
    /\ pc = "painel"
    /\ \E r \in produtividade_por_nucleo(df) : ret' = r.ret /\ erro' = r.erro
    /\ pc' = "produtividade_por_nucleo"
    /\ possiveis' = <<>>
    /\ UNCHANGED <<cfg, excel, parquet, df, avisos, hoje>>

TopProcessosCriticos ==
    \E n \in {1, 5} :
        /\ pc = "painel"
        /\ \E r \in top_processos_criticos(df, n) : ret' = r.ret /\ erro' = r.erro
        /\ pc' = "top_processos_criticos"
        /\ possiveis' = <<n>>
        /\ UNCHANGED <<cfg, excel, parquet, df, avisos, hoje>>

TabelaTaxaAtrasoPor ==
    \E coluna \in ColunasDeGrupo :
        /\ pc = "painel"
        /\ \E r \in tabela_taxa_atraso_por(df, coluna) : ret' = r.ret /\ erro' = r.erro
        /\ pc' = "tabela_taxa_atraso_por"
        /\ possiveis' = <<coluna>>
        /\ UNCHANGED <<cfg, excel, parquet, df, avisos, hoje>>

TabelaLeadtimePor ==
    \E coluna \in ColunasDeGrupo :
        /\ pc = "painel"
        /\ \E r \in tabela_leadtime_por(df, coluna) : ret' = r.ret /\ erro' = r.erro
        /\ pc' = "tabela_leadtime_por"
        /\ possiveis' = <<coluna>>
        /\ UNCHANGED <<cfg, excel, parquet, df, avisos, hoje>>

NextIndicadores ==
    \/ CalcularKpisExecutivos
    \/ CalcularKpisAvancados
    \/ FunilOperacional
    \/ ProdutividadePorNucleo
    \/ TopProcessosCriticos
    \/ TabelaTaxaAtrasoPor
    \/ TabelaLeadtimePor

SpecIndicadores == InitIndicadores /\ [][NextIndicadores]_vars

(***************************************************************************)
(* The stages in the order the program calls them, each on the table the   *)
(* stage before returned: core/etl.py preparar_base, then app.py           *)
(* carregar_dados.  df is the table object handed to the last stage as it  *)
(* is after the call, possiveis holds its value at the call, ret is the    *)
(* table the stage returned.                                               *)
(***************************************************************************)
InitEstagios ==
    /\ cfg = ConfigBase
    /\ \E K \in ConjuntosDeColunas : excel \in {Arquivo(t) : t \in Planilhas(K)}
    /\ parquet = SemArquivo
    /\ df = StripColunas(excel.tabela)
    /\ pc = "read_excel"
    /\ avisos = {}
    /\ erro = "nenhum"
    /\ possiveis = <<>>
    /\ ret = "None"
    /\ hoje = 400

\* df = _criar_lead_time(df): the columns are assigned on the table handed in,
\* which is the table returned
EstagioLeadTime ==
    /\ pc = "read_excel"
    /\ LET r == criar_lead_time(df, cfg, hoje)
       IN  /\ ret' = r.df
           /\ df' = r.df
           /\ avisos' = r.avisos
    /\ possiveis' = <<df>>
    /\ pc' = "_criar_lead_time"
    /\ UNCHANGED <<cfg, excel, parquet, erro, hoje>>

\* df = _criar_status_macro(df): assigned on the table handed in
EstagioStatusMacro ==
    /\ pc = "_criar_lead_time"
    /\ LET r == criar_status_macro(ret)
       IN  /\ ret' = r.df
           /\ df' = r.df
           /\ avisos' = r.avisos
    /\ possiveis' = <<ret>>
    /\ pc' = "_criar_status_macro"
    /\ UNCHANGED <<cfg, excel, parquet, erro, hoje>>

\* df = _enriquecer_campos(df): assigned on the table handed in; nothing is logged
\* at warning level
EstagioEnriquecer ==
    /\ pc = "_criar_status_macro"
    /\ ret' = enriquecer_campos(ret)
    /\ df' = enriquecer_campos(ret)
    /\ avisos' = {}
    /\ possiveis' = <<ret>>
    /\ pc' = "_enriquecer_campos"
    /\ UNCHANGED <<cfg, excel, parquet, erro, hoje>>

\* df = aplicar_sla(df): the stage works on df.copy(), the table handed in stays
EstagioSla ==
    /\ pc = "_enriquecer_campos"
    /\ LET r == aplicar_sla(ret, cfg)
       IN  /\ ret' = r.df
           /\ avisos' = r.avisos
           /\ erro' = r.erro
    /\ df' = ret
    /\ possiveis' = <<ret>>
    /\ pc' = "aplicar_sla"
    /\ UNCHANGED <<cfg, excel, parquet, hoje>>

\* df = calcular_risco(df): the stage works on df.copy(), the table handed in stays
EstagioRisco ==
    /\ pc = "aplicar_sla"
    /\ LET r == calcular_risco(ret, cfg)
       IN  /\ ret' = r.df
           /\ avisos' = r.avisos
           /\ erro' = r.erro
    /\ df' = ret
    /\ possiveis' = <<ret>>
    /\ pc' = "calcular_risco"
    /\ UNCHANGED <<cfg, excel, parquet, hoje>>

NextEstagios ==
    \/ EstagioLeadTime
    \/ EstagioStatusMacro
    \/ EstagioEnriquecer
    \/ EstagioSla
    \/ EstagioRisco

SpecEstagios == InitEstagios /\ [][NextEstagios]_vars

(***************************************************************************)
(* The risk engine: what is stated of calcular_risco                       *)
(***************************************************************************)
\* the texts that are empty once trimmed
Brancos == {"", " "}

TextoVazio(c) == c.t = "str" /\ c.s \in Brancos

\* the five risk conditions of a record r of a table with columns cols, read off
\* the record's input fields
EhAtrasado(cols, r) == "atrasado" \in cols /\ r["atrasado"].t = "bool" /\ r["atrasado"].b

EhCancelado(cols, r) ==
    "status_macro" \in cols /\ r["status_macro"].t = "str" /\ r["status_macro"].s = "Cancelado"

LeadExtremo(cols, r) ==
    "lead_time" \in cols /\ r["lead_time"].t = "int" /\ r["lead_time"].i > cfg.LIMITE_LEAD

\* the progress-log field is "Andamento SEI", or "SEI" in a table without it
CampoSei(cols) ==
    IF "Andamento SEI" \in cols THEN "Andamento SEI" ELSE IF "SEI" \in cols THEN "SEI" ELSE "None"

SeiVazio(cols, r) == CampoSei(cols) # "None" /\ TextoVazio(r[CampoSei(cols)])

SemResponsavel(cols, r) ==
    "Responsável" \in cols /\ (r["Responsável"].t = "nan" \/ TextoVazio(r["Responsável"]))

\* the configured weight of a condition, 0 when it has no entry
PesoDe(chave) == IF chave \in DOMAIN cfg.PESOS THEN cfg.PESOS[chave] ELSE 0

SomaDosPesos(cols, r) ==
      (IF EhAtrasado(cols, r) THEN PesoDe("atraso") ELSE 0)
    + (IF EhCancelado(cols, r) THEN PesoDe("cancelado") ELSE 0)
    + (IF LeadExtremo(cols, r) THEN PesoDe("lead_time_extremo") ELSE 0)
    + (IF SeiVazio(cols, r) THEN PesoDe("falha_sei") ELSE 0)
    + (IF SemResponsavel(cols, r) THEN PesoDe("sem_responsavel") ELSE 0)

RiscoNormal == pc = "fim" /\ erro = "nenhum"

Cols == SeqToSet(df.cols)

\* C1: on the normal path of calcular_risco the risco_score of every record is the
\* sum of the configured weights (0 when unconfigured) of the conditions among
\* atrasado, cancelled, extreme lead_time, empty progress log and empty or missing
\* owner that are true of the record, and nothing else
C1_ScoreIsWeightSum ==
    RiscoNormal =>
        \A i \in DOMAIN df.rows :
            df.rows[i]["risco_score"] = I(SomaDosPesos(Cols, df.rows[i]))

\* a scored record with all five conditions true, and one with exactly two
C1_Witness ==
    /\ RiscoNormal
    /\ cfg = ConfigBase
    /\ \E i \in DOMAIN df.rows :
          /\ EhAtrasado(Cols, df.rows[i]) /\ EhCancelado(Cols, df.rows[i])
          /\ LeadExtremo(Cols, df.rows[i]) /\ SeiVazio(Cols, df.rows[i])
          /\ SemResponsavel(Cols, df.rows[i])
          /\ df.rows[i]["risco_score"] = I(57)
    /\ \E i \in DOMAIN df.rows :
          /\ EhCancelado(Cols, df.rows[i]) /\ SemResponsavel(Cols, df.rows[i])
          /\ df.rows[i]["risco_score"] = I(5)

Score(i) == df.rows[i]["risco_score"].i

\* the input field that decides condition k of a table with columns cols
CampoDaCondicao(k, cols) ==
    CASE k = 1 -> "atrasado"
      [] k = 2 -> "status_macro"
      [] k = 3 -> "lead_time"
      [] k = 4 -> CampoSei(cols)
      [] k = 5 -> "Responsável"

CondicaoVale(k, cols, r) ==
    CASE k = 1 -> EhAtrasado(cols, r)
      [] k = 2 -> EhCancelado(cols, r)
      [] k = 3 -> LeadExtremo(cols, r)
      [] k = 4 -> SeiVazio(cols, r)
      [] k = 5 -> SemResponsavel(cols, r)

PesoDaCondicao(k) ==
    PesoDe(CASE k = 1 -> "atraso" [] k = 2 -> "cancelado" [] k = 3 -> "lead_time_extremo"
             [] k = 4 -> "falha_sei" [] k = 5 -> "sem_responsavel")

\* a cell that makes condition k true
CelulaVerdadeira(k) ==
    CASE k = 1 -> B(TRUE)
      [] k = 2 -> S("Cancelado")
      [] k = 3 -> I(cfg.LIMITE_LEAD + 1)
      [] k = 4 -> S("")
      [] k = 5 -> NaN

\* condition k of record i is false and its field is there to be changed
PodeVirar(i, k) ==
    /\ CampoDaCondicao(k, Cols) \in Cols
    /\ ~CondicaoVale(k, Cols, df.rows[i])

\* the risco_score calcular_risco gives record i once its condition k alone is made true
ScoreVirada(i, k) ==
    LET campo == CampoDaCondicao(k, Cols)
        outra == [df EXCEPT !.rows[i][campo] = CelulaVerdadeira(k)]
    IN  calcular_risco(outra, cfg).df.rows[i]["risco_score"].i

PesosNaoNegativos == \A chave \in DOMAIN cfg.PESOS : cfg.PESOS[chave] >= 0

C3_CategoriaByScore ==
    RiscoNormal =>
        \A i \in DOMAIN df.rows :
            df.rows[i]["risco_categoria"] =
                S(IF Score(i) <= 20 THEN "Baixo" ELSE IF Score(i) <= 50 THEN "Moderado" ELSE "Alto")

GrupoTempo(cols, r) == EhAtrasado(cols, r) \/ LeadExtremo(cols, r)

GrupoOperacional(cols, r) == SemResponsavel(cols, r) \/ SeiVazio(cols, r)

GrupoGovernanca(cols, r) == EhCancelado(cols, r)

GruposAtivos(cols, r) ==
    (IF GrupoTempo(cols, r) THEN {"Tempo"} ELSE {})
    \cup (IF GrupoOperacional(cols, r) THEN {"Operacional"} ELSE {})
    \cup (IF GrupoGovernanca(cols, r) THEN {"Governança"} ELSE {})

C6_ExceptionDefaults ==
    (pc = "fim" /\ erro = "capturado") =>
        \A i \in DOMAIN df.rows :
            /\ df.rows[i]["risco_score"] = I(0)
            /\ df.rows[i]["risco_categoria"] = S("Indefinido")
            /\ df.rows[i]["risco_tempo_flag"] = B(FALSE)
            /\ df.rows[i]["risco_operacional_flag"] = B(FALSE)
            /\ df.rows[i]["risco_governanca_flag"] = B(FALSE)

\* the warning that names the input of condition k
AvisoDaCondicao(k) ==
    CASE k = 1 -> "atrasado" [] k = 2 -> "status_macro" [] k = 3 -> "lead_time"
      [] k = 4 -> "SEI" [] k = 5 -> "responsável"

Ausente(k) == CampoDaCondicao(k, Cols) \notin Cols

FormaNormal(n) ==
    CASE n \in {"SEI", "sei", " Sei "} -> "sei"
      [] n \in {"Andamento SEI", "andamento sei", "ANDAMENTO SEI"} -> "andamento sei"
      [] n = "Responsável Técnico" -> "responsável técnico"
      [] n = "Responsavel Técnico" -> "responsavel técnico"
      [] n = "Responsavel Tecnico" -> "responsavel tecnico"
      [] n \in {"Data da solicitação", "DATA DA SOLICITAÇÃO"} -> "data da solicitação"
      [] n \in {"Situação do Processo", "SITUAÇÃO DO PROCESSO"} -> "situação do processo"
      [] n = "Situação  do Processo" -> "situação  do processo"
      [] n = "Orgão" -> "orgão"
      [] n = "lead_time" -> "lead_time"
      [] n = "status_macro" -> "status_macro"
      [] n \in {"Tipo da solicitação", "Tipo da Solicitação", "TIPO DA SOLICITAÇÃO"} ->
            "tipo da solicitação"
      [] n = "Tipo Solicitação" -> "tipo solicitação"
      [] n \in {"Responsável", "RESPONSÁVEL", "responsável"} -> "responsável"

FormasDe(lista) == {FormaNormal(lista[j]) : j \in DOMAIN lista}

\* column k of the table answers to one of the candidates
Casa(cols, lista, k) == FormaNormal(cols[k]) \in FormasDe(lista)

\* the first column, in column order, that answers to a candidate, or "None"
PrimeiraQueCasa(cols, lista) ==
    IF \E k \in DOMAIN cols : Casa(cols, lista, k)
    THEN cols[CHOOSE k \in DOMAIN cols :
                  Casa(cols, lista, k) /\ \A m \in 1..(k - 1) : ~Casa(cols, lista, m)]
    ELSE "None"

\* what achar_coluna returned: the first column that answers to a candidate,
\* the same for every list of candidates with the same normalised forms
C8_Retorno ==
    pc = "achou" =>
        /\ erro = "nenhum"
        /\ ret = PrimeiraQueCasa(df.cols, possiveis)
        /\ \A outra \in ListasCandidatos :
              FormasDe(outra) = FormasDe(possiveis) => achar_coluna(df, outra) = ret

\* C8: achar_coluna returns the first column, in the table's column order, whose
\* lowercased and trimmed name is the lowercased and trimmed form of a candidate,
\* the same column for every case or whitespace variant of the candidates, None
\* without an exception when no column matches, and leaves the table as it was
C8_AcharColuna == [](C8_Retorno) /\ [][df' = df]_vars

\* the candidate "SEI" resolved to the column " Sei ", which comes before "SEI"
C8_Witness ==
    /\ pc = "achou"
    /\ df.cols = <<"Orgão", " Sei ", "SEI">>
    /\ possiveis = <<"SEI">>
    /\ ret = " Sei "

\* the lowercased text of a cell contains one of the patterns
Tem(c, pats) == \E p \in pats : Contains(StrLower(AsStr(c)), Chars(p))

MacroComoDito(c) ==
    IF Tem(c, {"cancel"}) THEN "Cancelado"
    ELSE IF Tem(c, {"indefer", "defer", "finaliz", "conclu"}) THEN "Concluído"
    ELSE IF Tem(c, {"andamento", "analise", "pendente"}) THEN "Em andamento"
    ELSE "Outro"

MacroComAcento(c) ==
    IF Tem(c, {"cancel"}) THEN "Cancelado"
    ELSE IF Tem(c, {"indefer", "defer", "finaliz", "conclu"}) THEN "Concluído"
    ELSE IF Tem(c, {"andamento", "analise", "análise", "pendente"}) THEN "Em andamento"
    ELSE "Outro"

\* the status column of the table read, found whatever its letter case
ColunaStatus ==
    PrimeiraQueCasa(excel.tabela.cols,
                    <<"Situação  do Processo", "Situação do Processo">>)

\* the classification was made by this call, not found in the table
Classificou ==
    \/ pc = "status_criado"
    \/ pc = "status_garantido" /\ "status_macro" \notin SeqToSet(excel.tabela.cols)

\* C9 as stated: 'analise' is matched without its accent only
C9_Original ==
    Classificou =>
        \A i \in DOMAIN df.rows :
            df.rows[i]["status_macro"] =
                S(IF ColunaStatus = "None" THEN "Indefinido"
                  ELSE MacroComoDito(excel.tabela.rows[i][ColunaStatus]))

\* C9 amended: status_macro is decided by the first match, on the lowercased status
\* text, of: 'cancel' -> 'Cancelado'; 'indefer', 'defer', 'finaliz' or 'conclu' ->
\* 'Concluído'; 'andamento', 'analise', 'análise' or 'pendente' -> 'Em andamento';
\* else 'Outro'; 'Indefinido' for every record when no status column is found;
\* _garantir_status_macro leaves a table that has status_macro as it is
C9_StatusMacro ==
    /\ Classificou =>
          \A i \in DOMAIN df.rows :
              df.rows[i]["status_macro"] =
                  S(IF ColunaStatus = "None" THEN "Indefinido"
                    ELSE MacroComAcento(excel.tabela.rows[i][ColunaStatus]))
    /\ (pc = "status_garantido" /\ ~Classificou) => df = excel.tabela

\* a table classified by _criar_status_macro with a text holding both 'cancel' and
\* 'defer' and a text with the accented 'análise'
C9_Witness ==
    /\ pc = "status_criado"
    /\ ColunaStatus = "SITUAÇÃO DO PROCESSO"
    /\ Len(df.rows) = 2
    /\ df.rows[1][ColunaStatus] = S("Cancelado após deferimento")
    /\ df.rows[1]["status_macro"] = S("Cancelado")
    /\ df.rows[2][ColunaStatus] = S("Em Análise")
    /\ df.rows[2]["status_macro"] = S("Em andamento")

\* the submission-date column of the table read
ColunaData == PrimeiraQueCasa(excel.tabela.cols, <<"Data da solicitação">>)

\* n is the whole number of days from the timestamp ts to (midnight of) day dia
DiasInteiros(n, ts, dia) ==
    LET horas == dia * 24 - (ts.d * 24 + ts.h)
    IN  n * 24 <= horas /\ horas < (n + 1) * 24

\* C10: _criar_lead_time sets lead_time to the whole number of days from the
\* submission date (the default date for a missing or unparseable one) to the
\* evaluation day, never negative for a valid submission date not after the
\* evaluation day, and to 0 for every record when no submission-date column is found
C10_LeadTime ==
    pc = "lead_criado" =>
        \A i \in DOMAIN df.rows :
            IF ColunaData = "None" THEN df.rows[i]["lead_time"] = I(0)
            ELSE LET lida == excel.tabela.rows[i][ColunaData]
                     data == IF lida.t = "ts" THEN lida ELSE cfg.DEFAULT_DATE
                 IN  /\ DiasInteiros(df.rows[i]["lead_time"].i, data, hoje)
                     /\ (lida.t = "ts" /\ lida.d <= hoje) => df.rows[i]["lead_time"].i >= 0

(***************************************************************************)
(* The cached load: what is stated of carregar_base_tratada and main       *)
(***************************************************************************)
\* the submission-date column of a loaded table
ColunaDataPlanilha(d) ==
    IF "Data da solicitação" \in SeqToSet(d.cols) THEN "Data da solicitação" ELSE "None"

\* record i of table d has the lead_time of day dia: the whole days from its
\* submission date (the load keeps it in the table, the default date put in
\* for a missing one) to dia
LeadTimeDoDia(d, i, dia) ==
    IF ColunaDataPlanilha(d) = "None" THEN d.rows[i]["lead_time"] = I(0)
    ELSE LET data == d.rows[i][ColunaDataPlanilha(d)]
         IN  /\ data.t = "ts"
             /\ d.rows[i]["lead_time"].t = "int"
             /\ DiasInteiros(d.rows[i]["lead_time"].i, data, dia)

\* C11: every call of carregar_base_tratada returns lead_time values computed
\* against the day of that call, also when an earlier call ran on an earlier day
C11_LeadTimeOfTheDay ==
    pc = "carregado" => \A i \in DOMAIN df.rows : LeadTimeDoDia(df, i, hoje)

\* the load has to read the source spreadsheet
PrecisaDaPlanilha == ~(cfg.SAVE_PARQUET /\ parquet.estado = "ok")

\* one step of a load with the cache enabled
C12_Passo ==
    (pc = "inicio" /\ cfg.SAVE_PARQUET) =>
        IF parquet.estado = "ok"
        THEN /\ pc' = "carregado"
             /\ df' = parquet.tabela
             /\ parquet' = parquet
             /\ avisos' = {}
             /\ erro' = "nenhum"
        ELSE excel.estado = "ok" =>
                /\ pc' = "carregado"
                /\ erro' = "nenhum"
                /\ df' = preparar_base(excel.tabela, cfg, hoje).df
                /\ \A i \in DOMAIN df'.rows : LeadTimeDoDia(df', i, hoje)
                /\ "parquet" \in avisos'
                /\ parquet' \in {salvar_base_parquet(df', cfg, parquet, escrita) :
                                   escrita \in {"ok", "falha", "parcial"}}
                /\ parquet' \in {Arquivo(df'), parquet, ArquivoRuim}

\* C12: with the cache enabled a failed read of the snapshot (missing or
\* unreadable file) does not fail the load: the full ETL runs on the spreadsheet,
\* its result is returned and the snapshot write is attempted; a readable
\* snapshot is returned as it is and the ETL does not run
C12_CacheFallback == [][C12_Passo]_vars

\* a load that found the snapshot unreadable, ran the ETL and rewrote the snapshot
C12_Witness ==
    /\ pc = "carregado"
    /\ cfg.SAVE_PARQUET
    /\ "parquet" \in avisos
    /\ parquet = Arquivo(df)
    /\ Len(df.rows) = 2
    /\ TemColuna(df, "lead_time") /\ TemColuna(df, "status_macro")

\* one step of a load whose read of the spreadsheet fails, and of main after it
C13_Passo ==
    /\ (pc = "inicio" /\ PrecisaDaPlanilha /\ excel.estado # "ok") =>
          /\ pc' = "falha"
          /\ erro' = "propagado"
          /\ df' = SemTabela
          /\ parquet' = parquet
    /\ pc = "falha" =>
          /\ pc' = "erro_mostrado"
          /\ erro' = "propagado"
          /\ df' = SemTabela
          /\ parquet' = parquet
    /\ pc = "erro_mostrado" => pc' = "inicio"

\* C13: a failed read of the source spreadsheet propagates out of preparar_base
\* and carregar_base_tratada: no table is returned, neither aplicar_sla nor
\* calcular_risco runs, no snapshot is written, and main shows the error and
\* returns without calling render_dashboard
C13_ReadFailurePropagates ==
    [][C13_Passo]_vars /\ [](pc = "falha" => (~ENABLED AplicarSla /\ ~ENABLED CalcularRisco))

\* main has shown the error of a load with the cache enabled and an unreadable snapshot
C13_Witness ==
    /\ pc = "erro_mostrado"
    /\ erro = "propagado"
    /\ cfg.SAVE_PARQUET
    /\ parquet = ArquivoRuim
    /\ excel = SemArquivo
    /\ df = SemTabela

(***************************************************************************)
(* The SLA engine                                                          *)
(***************************************************************************)
\* the request-type column of the table handed to aplicar_sla
ColunaTipo == PrimeiraQueCasa(excel.tabela.cols, possiveis_tipo)

\* the request type written in a cell, surrounding blanks apart
TipoDaCelula(celula) ==
    CASE celula \in {S("Adesão"), S(" Adesão ")} -> "Adesão"
      [] celula = S("adesão") -> "adesão"
      [] celula = S("Pregão") -> "Pregão"
      [] celula = S("Serviço") -> "Serviço"
      [] celula = NaN -> "sem tipo"

\* the multiplier configured for the type, 1 when the type has no entry
MultiplicadorDoTipo(tipo) ==
    IF tipo \in DOMAIN cfg.MULTIPLIERS THEN cfg.MULTIPLIERS[tipo] ELSE 1

MultiplicadorDoRegistro(i) ==
    IF ColunaTipo = "None" THEN 1
    ELSE MultiplicadorDoTipo(TipoDaCelula(excel.tabela.rows[i][ColunaTipo]))

\* C14: after aplicar_sla every record's sla_final is the base value times the
\* multiplier configured for the record's request type, 1 when the type has no
\* entry, and the base value when the table has no request-type column
C14_SlaFinal ==
    pc = "sla" =>
        \A i \in DOMAIN df.rows :
            df.rows[i]["sla_final"] = I(cfg.SLA_PADRAO * MultiplicadorDoRegistro(i))

\* a type with a multiplier, written with blanks in a column in capitals, next to
\* a type without an entry
C14_Witness ==
    /\ pc = "sla"
    /\ ColunaTipo = "TIPO DA SOLICITAÇÃO"
    /\ cfg.SLA_PADRAO = 45
    /\ Len(df.rows) = 2
    /\ excel.tabela.rows[1][ColunaTipo] = S(" Adesão ")
    /\ df.rows[1]["sla_final"] = I(180)
    /\ excel.tabela.rows[2][ColunaTipo] = S("Serviço")
    /\ df.rows[2]["sla_final"] = I(45)

\* the lead time of record i as aplicar_sla received it, 0 in a table without the
\* column
LeadDoRegistro(i) ==
    IF "lead_time" \in SeqToSet(excel.tabela.cols)
    THEN excel.tabela.rows[i]["lead_time"].i
    ELSE 0

SlaNormal == pc = "sla" /\ erro = "nenhum"

\* C15: on the normal path of aplicar_sla a record is atrasado exactly when its
\* lead time is over its sla_final (equal is not breached); without a lead_time
\* column the lead time is 0 and a record is breached only under a negative
\* sla_final
C15_Atrasado ==
    SlaNormal =>
        \A i \in DOMAIN df.rows :
            /\ df.rows[i]["atrasado"] = B(LeadDoRegistro(i) > df.rows[i]["sla_final"].i)
            /\ "lead_time" \notin SeqToSet(excel.tabela.cols) =>
                    (df.rows[i]["atrasado"].b <=> df.rows[i]["sla_final"].i < 0)

\* a record at its SLA, not breached, next to one a day over it
C15_Witness ==
    /\ SlaNormal
    /\ Len(df.rows) = 2
    /\ LeadDoRegistro(1) = 30
    /\ df.rows[1]["sla_final"] = I(30)
    /\ df.rows[1]["atrasado"] = B(FALSE)
    /\ LeadDoRegistro(2) = 31
    /\ df.rows[2]["sla_final"] = I(30)
    /\ df.rows[2]["atrasado"] = B(TRUE)

\* the bucket of a lead time: 0..30, 31..60, 61..90, 91..180, 181..365, over 365
BaldeDoLeadTime(lt) ==
    IF lt <= 30 THEN S("0-30 dias")
    ELSE IF lt <= 60 THEN S("31-60 dias")
    ELSE IF lt <= 90 THEN S("61-90 dias")
    ELSE IF lt <= 180 THEN S("91-180 dias")
    ELSE IF lt <= 365 THEN S("181-365 dias")
    ELSE S(">365 dias")

\* C16: on the normal path of aplicar_sla every record with a lead time of 0 or
\* more has the bucket of its lead time, the last bucket taking every value over
\* 365, and no record is left without a bucket
C16_FaixaLeadTime ==
    SlaNormal =>
        \A i \in DOMAIN df.rows :
            /\ ~IsNa(df.rows[i]["faixa_lead_time"])
            /\ LeadDoRegistro(i) >= 0 =>
                    df.rows[i]["faixa_lead_time"] = BaldeDoLeadTime(LeadDoRegistro(i))

\* the table a second run of aplicar_sla and calcular_risco makes of the table of
\* the first
SegundaVolta == calcular_risco(aplicar_sla(df, cfg).df, cfg).df

MesmoCampo(d, e, i, campo) ==
    /\ TemColuna(d, campo) <=> TemColuna(e, campo)
    /\ TemColuna(d, campo) => d.rows[i][campo] = e.rows[i][campo]

\* C17: aplicar_sla and calcular_risco run again on the table they produced, under
\* the same settings, give every record the risco_score, status_macro and sla_final
\* of the first run
C17_SegundaVoltaIgual ==
    pc = "fim" =>
        /\ Len(SegundaVolta.rows) = Len(df.rows)
        /\ \A i \in DOMAIN df.rows :
              /\ MesmoCampo(SegundaVolta, df, i, "risco_score")
              /\ MesmoCampo(SegundaVolta, df, i, "status_macro")
              /\ MesmoCampo(SegundaVolta, df, i, "sla_final")

\* a record breached, very old and cancelled, with a multiplied SLA and a score
\* above zero after the first run
C17_Witness ==
    /\ pc = "fim"
    /\ erro = "nenhum"
    /\ Len(df.rows) = 2
    /\ TemColuna(df, "status_macro")
    /\ df.rows[2]["sla_final"] = I(60)
    /\ df.rows[2]["risco_score"] = I(51)
    /\ SegundaVolta.rows[2]["risco_score"] = I(51)

\* the comparisons of the flags were made: the lead times are numbers or empty
FlagsCalculadas ==
    /\ pc = "sla"
    /\ "lead_time" \in SeqToSet(excel.tabela.cols) =>
            \A i \in DOMAIN excel.tabela.rows : excel.tabela.rows[i]["lead_time"].t # "str"

\* the lead time of record i is over the limit; an empty lead time is over nothing
AcimaDoLimite(i, limite) ==
    IF "lead_time" \notin SeqToSet(excel.tabela.cols) THEN 0 > limite
    ELSE /\ excel.tabela.rows[i]["lead_time"].t = "int"
         /\ excel.tabela.rows[i]["lead_time"].i > limite

ColunaSeiResolvida == PrimeiraQueCasa(excel.tabela.cols, possiveis_colunas_sei)

ColunaRespResolvida == PrimeiraQueCasa(excel.tabela.cols, possiveis_resp)

\* the progress log of record i is blank
SeiEmBranco(i) ==
    /\ ColunaSeiResolvida # "None"
    /\ excel.tabela.rows[i][ColunaSeiResolvida] \in {S(""), S(" ")}

\* record i has no owner
DonoEmBranco(i) ==
    /\ ColunaRespResolvida # "None"
    /\ excel.tabela.rows[i][ColunaRespResolvida] \in {NaN, S(""), S(" ")}

\* C20: calcular_risco scores the progress-log and owner conditions on the columns
\* the column resolver finds, whatever the letter case and surrounding blanks of
\* their names
C20_RiscoUsaResolvedor ==
    pc = "fim" =>
        \A i \in DOMAIN df.rows :
            df.rows[i]["risco_score"] =
                I(Peso(SeiEmBranco(i), PesosGet(cfg.PESOS, "falha_sei"))
                  + Peso(DonoEmBranco(i), PesosGet(cfg.PESOS, "sem_responsavel")))

(***************************************************************************)
(* The aggregators on empty and column-incomplete tables                   *)
(***************************************************************************)
SemRegistros == Len(df.rows) = 0

Falta(col) == col \notin SeqToSet(df.cols)

\* a dict that is empty or has 0 under each of the keys
ZeroEm(chaves) == ret.vazio \/ \A k \in chaves : ret.kpis[k] = 0

\* a table without rows
SemLinhas == ret.rows = <<>>

\* the table was empty or lacked a column the aggregator called reads
EntradaIncompleta ==
    \/ pc \in {"calcular_kpis_executivos", "calcular_kpis_avancados", "funil_operacional",
               "produtividade_por_nucleo", "top_processos_criticos",
               "tabela_taxa_atraso_por", "tabela_leadtime_por"} /\ SemRegistros
    \/ pc = "calcular_kpis_executivos" /\ (Falta("status_macro") \/ Falta("atrasado"))
    \/ pc = "calcular_kpis_avancados"
         /\ (Falta("lead_time") \/ Falta("muito_antigo") \/ Falta("tem_sei") \/ Falta("Responsável"))
    \/ pc = "funil_operacional" /\ Falta("status_macro")
    \/ pc = "produtividade_por_nucleo" /\ (Falta("Núcleo") \/ Falta("status_macro"))
    \/ pc = "top_processos_criticos" /\ Falta("lead_time")
    \/ pc = "tabela_taxa_atraso_por" /\ (Falta(possiveis[1]) \/ Falta("atrasado"))
    \/ pc = "tabela_leadtime_por" /\ (Falta(possiveis[1]) \/ Falta("lead_time"))

\* what is returned for an empty table: nothing, or zeros
VazioDoVazio ==
    SemRegistros =>
        IF pc \in {"calcular_kpis_executivos", "calcular_kpis_avancados"}
        THEN ZeroEm(DOMAIN ret.kpis)
        ELSE SemLinhas

\* what is returned for a missing column: the part read from it is empty or at its
\* default
PadraoDaColuna ==
    /\ pc = "calcular_kpis_executivos" =>
          /\ Falta("status_macro") => ZeroEm({"Concluídas", "Canceladas", "Taxa Conclusão (%)"})
          /\ Falta("atrasado") => ZeroEm({"Atrasadas", "Taxa Atraso (%)"})
    /\ pc = "calcular_kpis_avancados" =>
          /\ Falta("lead_time") =>
                ZeroEm({"lead_media", "lead_mediana", "lead_p75", "lead_p90", "lead_p95"})
          /\ Falta("muito_antigo") => ZeroEm({"qtd_muito_antigo"})
          /\ Falta("tem_sei") => ZeroEm({"qtd_sem_sei"})
          /\ Falta("Responsável") => ZeroEm({"qtd_sem_responsavel"})
    /\ pc = "funil_operacional" /\ Falta("status_macro") =>
          \A k \in DOMAIN ret.rows :
              /\ ret.rows[k]["status_macro"] = S("Indefinido")
              /\ ret.rows[k]["quantidade"] = I(Len(df.rows))
    /\ pc = "produtividade_por_nucleo" =>
          /\ Falta("Núcleo") => ret = DataFrameVazio
          /\ Falta("status_macro") =>
                \A k \in DOMAIN ret.rows : ret.rows[k]["Conclusão (%)"] = I(0)
    /\ pc = "top_processos_criticos" /\ Falta("lead_time") => ret = DataFrameVazio
    /\ pc = "tabela_taxa_atraso_por" =>
          /\ Falta(possiveis[1]) => ret = DataFrameVazio
          /\ Falta("atrasado") =>
                \A k \in DOMAIN ret.rows : ret.rows[k]["Atrasadas"] = I(0)
    /\ pc = "tabela_leadtime_por" /\ (Falta(possiveis[1]) \/ Falta("lead_time")) =>
          ret = DataFrameVazio

\* C18: an aggregator called on an empty table, or on a table without a column it
\* reads, lets no exception out and returns an empty result or the default of what
\* it could not read
C18_AggregatorsTolerate ==
    EntradaIncompleta => (erro # "propagado" /\ VazioDoVazio /\ PadraoDaColuna)

\* the breach table of a table with groups and without the atrasado column
C18_Witness ==
    /\ pc = "tabela_taxa_atraso_por"
    /\ possiveis = <<"Núcleo">>
    /\ Falta("atrasado")
    /\ Len(df.rows) = 2
    /\ erro = "nenhum"
    /\ Len(ret.rows) = 2
    /\ ret.rows[1]["Total"] = I(1)
    /\ ret.rows[1]["Atrasadas"] = I(0)

(***************************************************************************)
(* The fields aplicar_sla derives                                          *)
(***************************************************************************)
CamposSla ==
    {"sla_final", "atrasado", "atraso_severo", "margem_sla", "sla_categoria",
     "faixa_lead_time", "muito_antigo"}

\* C22: on whichever path aplicar_sla returned, every record of the table it
\* returned has each SLA-derived field, and none of them is empty
C22_CamposDefinidos ==
    pc = "sla" =>
        \A campo \in CamposSla :
            /\ TemColuna(df, campo)
            /\ \A i \in DOMAIN df.rows : ~IsNa(df.rows[i][campo])

\* C23: on the normal path of aplicar_sla margem_sla is sla_final minus lead_time,
\* below zero exactly for the breached records
C23_MargemSla ==
    SlaNormal =>
        \A i \in DOMAIN df.rows :
            /\ df.rows[i]["margem_sla"] = I(df.rows[i]["sla_final"].i - LeadDoRegistro(i))
            /\ df.rows[i]["margem_sla"].i < 0 <=> df.rows[i]["atrasado"].b

\* a record at its SLA with margin 0, not breached, next to one a day over it with
\* margin -1
C23_Witness ==
    /\ SlaNormal
    /\ Len(df.rows) = 2
    /\ df.rows[1]["margem_sla"] = I(0)
    /\ df.rows[1]["atrasado"] = B(FALSE)
    /\ LeadDoRegistro(1) = 30
    /\ df.rows[2]["margem_sla"] = I(0 - 1)
    /\ df.rows[2]["atrasado"] = B(TRUE)

\* C24: on the normal path of aplicar_sla muito_antigo is true exactly when the
\* lead time is over 365, and exactly when the bucket is '>365 dias'
C24_MuitoAntigo ==
    SlaNormal =>
        \A i \in DOMAIN df.rows :
            /\ df.rows[i]["muito_antigo"] = B(LeadDoRegistro(i) > 365)
            /\ df.rows[i]["muito_antigo"].b <=> df.rows[i]["faixa_lead_time"] = S(">365 dias")

\* C28: on the normal path of aplicar_sla sla_categoria is 'Atraso Severo' exactly
\* for the records with atraso_severo, 'Atrasado' exactly for those atrasado
\* without atraso_severo, and 'Dentro do prazo' exactly for those with neither
C28_SlaCategoria ==
    SlaNormal =>
        \A i \in DOMAIN df.rows :
            LET severo == df.rows[i]["atraso_severo"].b
                atrasado == df.rows[i]["atrasado"].b
                categoria == df.rows[i]["sla_categoria"]
            IN  /\ categoria \in {S("Atraso Severo"), S("Atrasado"), S("Dentro do prazo")}
                /\ categoria = S("Atraso Severo") <=> severo
                /\ categoria = S("Atrasado") <=> (atrasado /\ ~severo)
                /\ categoria = S("Dentro do prazo") <=> (~atrasado /\ ~severo)

\* a record over the severity limit and within its own SLA is 'Atraso Severo'; its
\* neighbour, over both, too
C28_Witness ==
    /\ SlaNormal
    /\ Len(df.rows) = 2
    /\ df.rows[1]["atraso_severo"] = B(TRUE)
    /\ df.rows[1]["atrasado"] = B(FALSE)
    /\ df.rows[1]["sla_categoria"] = S("Atraso Severo")
    /\ df.rows[2]["atrasado"] = B(TRUE)
    /\ df.rows[2]["sla_categoria"] = S("Atraso Severo")

(***************************************************************************)
(* Score and dimension                                                     *)
(***************************************************************************)
NenhumaCondicao(cols, r) ==
    /\ ~EhAtrasado(cols, r)
    /\ ~EhCancelado(cols, r)
    /\ ~LeadExtremo(cols, r)
    /\ ~SeiVazio(cols, r)
    /\ ~SemResponsavel(cols, r)

\* C29: on the normal path of calcular_risco a record of dimension 'Nenhum' has
\* none of the five conditions and score 0, and a record with a score other than 0
\* has a dimension other than 'Nenhum'
C29_ScoreEDimensao ==
    RiscoNormal =>
        \A i \in DOMAIN df.rows :
            /\ df.rows[i]["risco_dimensao_principal"] = S("Nenhum") =>
                    /\ NenhumaCondicao(Cols, df.rows[i])
                    /\ df.rows[i]["risco_score"] = I(0)
            /\ df.rows[i]["risco_score"] # I(0) =>
                    df.rows[i]["risco_dimensao_principal"] # S("Nenhum")

\* a record with no condition, score 0 and 'Nenhum', next to a cancelled one scored
\* under 'Governança'
C29_Witness ==
    /\ RiscoNormal
    /\ \E i \in DOMAIN df.rows :
          /\ NenhumaCondicao(Cols, df.rows[i])
          /\ df.rows[i]["risco_score"] = I(0)
          /\ df.rows[i]["risco_dimensao_principal"] = S("Nenhum")
    /\ \E i \in DOMAIN df.rows :
          /\ EhCancelado(Cols, df.rows[i])
          /\ df.rows[i]["risco_score"] # I(0)
          /\ df.rows[i]["risco_dimensao_principal"] = S("Governança")

(***************************************************************************)
(* The load with the cache disabled                                        *)
(***************************************************************************)
\* a call of carregar_base_tratada with the cache flag disabled
C30_Passo ==
    (pc = "inicio" /\ pc' # "inicio" /\ ~cfg.SAVE_PARQUET) =>
        /\ parquet' = parquet
        /\ IF excel.estado = "ok"
           THEN /\ pc' = "carregado"
                /\ df' = preparar_base(excel.tabela, cfg, hoje).df
           ELSE pc' = "falha"

Quantos(col, v) ==
    IF Falta(col) THEN 0
    ELSE Cardinality({i \in DOMAIN df.rows : df.rows[i][col] = v})

\* calcular_kpis_executivos ran to the end of its try block
KpisCalculados == pc = "calcular_kpis_executivos" /\ erro = "nenhum"

\* the four counts of the executive KPIs and what follows from them
ContagensExecutivas ==
    /\ ~ret.vazio
    /\ ret.kpis["Total Solicitações"] = Len(df.rows)
    /\ ret.kpis["Concluídas"] = Quantos("status_macro", S("Concluído"))
    /\ ret.kpis["Atrasadas"] = Quantos("atrasado", B(TRUE))
    /\ ret.kpis["Canceladas"] = Quantos("status_macro", S("Cancelado"))
    /\ ret.kpis["Concluídas"] + ret.kpis["Canceladas"] <= ret.kpis["Total Solicitações"]
    /\ ret.kpis["Atrasadas"] <= ret.kpis["Total Solicitações"]
    /\ \A taxa \in {"Taxa Conclusão (%)", "Taxa Atraso (%)"} :
            ret.kpis[taxa] \in 0..10000

\* the rate taxa, kept in hundredths of a percent, is the two-decimal number
\* nearest to parte / Total x 100, and 0 for no record
TaxaArredondada(taxa, parte) ==
    LET total == Len(df.rows)
        dist == ret.kpis[taxa] * total - ret.kpis[parte] * 10000
    IN  IF total = 0 THEN ret.kpis[taxa] = 0
        ELSE 2 * dist <= total /\ 2 * (0 - dist) <= total

\* the rate taxa is parte / Total x 100 itself, and 0 for no record
TaxaExata(taxa, parte) ==
    LET total == Len(df.rows)
    IN  IF total = 0 THEN ret.kpis[taxa] = 0
        ELSE ret.kpis[taxa] * total = ret.kpis[parte] * 10000

LeadMaior(x, y) ==
    /\ x["lead_time"].t = "int"
    /\ (y["lead_time"].t = "int" => x["lead_time"].i > y["lead_time"].i)

\* the returned records are records of the table, each taken once, and no record
\* left out has a larger lead_time than a returned one
EscolhidosDaTabela ==
    \E f \in [DOMAIN ret.rows -> DOMAIN df.rows] :
        /\ \A a, b \in DOMAIN ret.rows : a # b => f[a] # f[b]
        /\ \A k \in DOMAIN ret.rows : ret.rows[k] = df.rows[f[k]]
        /\ \A i \in DOMAIN df.rows :
              (\A k \in DOMAIN ret.rows : f[k] # i) =>
                  \A k \in DOMAIN ret.rows : ~LeadMaior(df.rows[i], ret.rows[k])

\* the table d with its risco_score, when it has one, wiped to 0
RiscoApagado(d) ==
    IF "risco_score" \in SeqToSet(d.cols) THEN SetColConst(d, "risco_score", I(0)) ELSE d

\* the same records in the same order come out of the table with every risco_score
\* wiped
RiscoNaoPesa ==
    RiscoApagado(ret) \in {RiscoApagado(r.ret) :
                             r \in top_processos_criticos(RiscoApagado(df), possiveis[1])}

\* C26: top_processos_criticos(df, n) returns at most n records, each a record of
\* df, by falling lead_time, no record left out having a larger lead_time than a
\* returned one; risco_score has no influence on the records returned or on their
\* order; without a lead_time column the result is an empty table
C26_TopPorLeadTime ==
    pc = "top_processos_criticos" =>
        /\ Len(ret.rows) <= possiveis[1]
        /\ IF Falta("lead_time") THEN ret = DataFrameVazio
           ELSE /\ EscolhidosDaTabela
                /\ \A a, b \in DOMAIN ret.rows : a < b => ~LeadMaior(ret.rows[b], ret.rows[a])
                /\ RiscoNaoPesa

\* the top 1 of three records: the one returned has lead_time 400 and risco_score
\* 0, the one with risco_score 50 and lead_time 5 is left out
C26_Witness ==
    /\ pc = "top_processos_criticos"
    /\ possiveis = <<1>>
    /\ ~Falta("lead_time")
    /\ ~Falta("risco_score")
    /\ Len(df.rows) = 3
    /\ df.rows[1]["lead_time"] = I(5)
    /\ df.rows[1]["risco_score"] = I(50)
    /\ Len(ret.rows) = 1
    /\ ret.rows[1]["lead_time"] = I(400)
    /\ ret.rows[1]["risco_score"] = I(0)

(***************************************************************************)
(* The stages and the table they are handed                                *)
(***************************************************************************)
Estagios ==
    {"_criar_lead_time", "_criar_status_macro", "_enriquecer_campos", "aplicar_sla",
     "calcular_risco"}

\* the table handed to the stage, as it was at the call
Entregue == possiveis[1]

\* C21: after _criar_lead_time, _criar_status_macro, _enriquecer_campos, aplicar_sla or
\* calcular_risco returns, the table the caller handed in has the columns and the
\* values it had before the call
C21_EntradaIntacta == pc \in Estagios => df = Entregue

(***************************************************************************)
(* The warnings of the default paths                                       *)
(***************************************************************************)
\* the stage that has just run put a default in for input nome, which is missing
\* (or invalid) in the table it was handed
DefaultPara(nome) ==
    \/ /\ pc = "_criar_lead_time"
       /\ nome = "data da solicitação"
       /\ LET col == achar_coluna(Entregue, possiveis_data_solic)
          IN  \/ col = "None"
              \/ \E i \in DOMAIN Entregue.rows : Entregue.rows[i][col].t # "ts"
    \/ /\ pc = "_criar_status_macro"
       /\ nome = "situação do processo"
       /\ achar_coluna(Entregue, possiveis_status) = "None"
    \/ /\ pc = "_enriquecer_campos"
       /\ \/ nome = "SEI" /\ achar_coluna(Entregue, <<"SEI">>) = "None"
          \/ nome = "Andamento SEI" /\ achar_coluna(Entregue, <<"Andamento SEI">>) = "None"
          \/ nome = "tipo da solicitação" /\ achar_coluna(Entregue, possiveis_tipo) = "None"
    \/ /\ pc = "aplicar_sla"
       /\ \/ nome = "tipo da solicitação" /\ achar_coluna(Entregue, possiveis_tipo) = "None"
          \/ nome = "lead_time" /\ ~TemColuna(Entregue, "lead_time")
    \/ /\ pc = "calcular_risco"
       /\ erro = "nenhum"
       /\ \/ nome = "SEI" /\ col_sei(Entregue) = "None"
          \/ nome = "responsável" /\ col_resp(Entregue) = "None"
          \/ nome \in {"atrasado", "status_macro", "lead_time"} /\ ~TemColuna(Entregue, nome)

Entradas ==
    {"data da solicitação", "situação do processo", "tipo da solicitação", "SEI",
     "Andamento SEI", "lead_time", "responsável", "atrasado", "status_macro"}

\* C25: every stage that puts a default in for a missing or invalid input has
\* logged a warning naming that input by the time it returns
C25_DefaultAvisado == \A nome \in Entradas : DefaultPara(nome) => nome \in avisos
====
